---------------------------- MODULE Spec2Model ----------------------------
(***************************************************************************)
(* Model of the two validators of LLM_data_generation:                     *)
(*   - TestCaseValidator (src/src/validators/validator.py): structure,     *)
(*     content, page-sequence and conditional-rule checks of a test-case   *)
(*     CSV;                                                                *)
(*   - ScenarioValidator (src/version4.1/schema/scenario_validator.py):    *)
(*     the scenario parser and the semantic checks of a CSV against it.    *)
(* Strings are TLA+ strings; str.lower(), substring tests and the regular  *)
(* expressions of the source are computed character by character.          *)
(***************************************************************************)
EXTENDS Integers, Sequences, FiniteSets, TLC

VARIABLES
    csv,        \* the CSV document handed to validate_csv (readable, error, header, lines)
    rules,      \* TestCaseValidator.rules, loaded by __init__
    results,    \* TestCaseValidator.results
    is_valid,   \* the verdict returned by validate_csv ("none" before the call)
    pc,         \* "ready" after construction, "done" after the call returned
    rows,       \* ScenarioValidator.rows, loaded by __init__
    scenario,   \* the scenario text handed to validate
    req,        \* the ScenarioRequirements parse_scenario returned to validate
    checks,     \* ScenarioValidator.checks
    all_passed, \* the verdict returned by validate ("none" before the call)
    pcS,        \* "ready" after construction, "done" after validate returned
    schema,     \* TestCaseValidator.schema, loaded by __init__
    xpath_registry,    \* TestCaseValidator.xpath_registry
    element_registry,  \* TestCaseValidator.element_registry
    pcR,        \* "loaded" before _build_registries ran, "built" after
    heap,       \* the list objects of a run of several calls, by identity
    self_results,  \* the list object TestCaseValidator.results refers to
    self_checks,   \* the list object ScenarioValidator.checks refers to
    calls       \* the calls that returned: input, verdict, returned list object

vars == <<csv, rules, results, is_valid, pc, rows, scenario, req, checks, all_passed, pcS,
          schema, xpath_registry, element_registry, pcR,
          heap, self_results, self_checks, calls>>
varsC == <<heap, self_results, self_checks, calls>>
varsR == <<schema, xpath_registry, element_registry, pcR>>
varsT == <<csv, rules, results, is_valid, pc>>
varsS == <<rows, scenario, req, checks, all_passed, pcS>>

---------------------------------------------------------------------------
(* Strings *)

\* Python's `a in b` for strings.
IsSubstr(a, b) ==
    \E i \in 0..(Len(b) - Len(a)) : SubSeq(b, i + 1, i + Len(a)) = a

StartsWith(s, p) == Len(p) <= Len(s) /\ SubSeq(s, 1, Len(p)) = p

UpperChars == "ABCDEFGHIJKLMNOPQRSTUVWXYZ"
LowerChars == "abcdefghijklmnopqrstuvwxyz"
DigitChars == "0123456789"

CharAt(s, i) == SubSeq(s, i, i)

\* The 1-based position of the one-character string c in s, 0 when absent.
IndexOf(c, s) ==
    IF \E i \in 1..Len(s) : CharAt(s, i) = c
    THEN CHOOSE i \in 1..Len(s) : CharAt(s, i) = c
    ELSE 0

UpperSet == {CharAt(UpperChars, i) : i \in 1..Len(UpperChars)}

LowerChar(c) ==
    IF c \in UpperSet THEN CharAt(LowerChars, IndexOf(c, UpperChars)) ELSE c

RECURSIVE Lower(_)
\* str.lower(): every character lowered, computed on the two halves of s.
Lower(s) ==
    IF Len(s) = 0 THEN ""
    ELSE IF Len(s) = 1 THEN LowerChar(s)
    ELSE Lower(SubSeq(s, 1, Len(s) \div 2)) \o Lower(SubSeq(s, Len(s) \div 2 + 1, Len(s)))

\* Concatenation of a sequence of sequences.
RECURSIVE Flatten(_)
Flatten(ss) == IF ss = <<>> THEN <<>> ELSE Head(ss) \o Flatten(Tail(ss))

Opt(cond, r) == IF cond THEN <<r>> ELSE <<>>

---------------------------------------------------------------------------
(* TestCaseValidator *)

ERROR == "ERROR"
WARNING == "WARNING"
INFO == "INFO"

ValidationResult(severity, row, field, message) ==
    [severity |-> severity, row |-> row, field |-> field, message |-> message]

REQUIRED_COLUMNS == <<"Group", "Element", "Action", "Value", "Strategy", "XPath">>
VALID_ACTIONS == {"click", "Input"}
VALID_STRATEGIES == {"id", "data-testid", "data-testid+text", "absolute", "name", "class", "text"}
PAGE_ORDER == <<"Contact Info", "Personal Information", "Documents", "Additional Details",
                "Other Products", "PEP / FATCA", "PDF / Other Details">>

\* csv.DictReader: one dictionary per data line, keyed by the header's columns
\* (a column named twice keeps its last cell).  Documents are rectangular: every
\* data line has one cell per header column.
read_csv(doc) ==
    LET cols == {doc.header[k] : k \in 1..Len(doc.header)}
        last(c) == CHOOSE k \in 1..Len(doc.header) :
                      /\ doc.header[k] = c
                      /\ \A m \in 1..Len(doc.header) : doc.header[m] = c => m <= k
    IN  [i \in 1..Len(doc.lines) |-> [c \in cols |-> doc.lines[i][last(c)]]]

\* dict.get(key, default)
Get(row, key, default) == IF key \in DOMAIN row THEN row[key] ELSE default

\* Truthiness of row.get(key): the key is there and its value is not empty.
Truthy(row, key) == key \in DOMAIN row /\ row[key] # ""

MissingColumnError(col) ==
    ValidationResult(ERROR, 0, col, "Missing required column: " \o col)

\* A structure check that stops at the first missing column.
validate_structure_FirstMissing(rs) ==
    IF rs = <<>>
    THEN <<ValidationResult(ERROR, 0, "file", "CSV is empty")>>
    ELSE LET missing == SelectSeq(REQUIRED_COLUMNS, LAMBDA c : c \notin DOMAIN rs[1])
         IN  IF missing = <<>> THEN <<>> ELSE <<MissingColumnError(missing[1])>>

validate_structure(rs) ==
    IF rs = <<>>
    THEN <<ValidationResult(ERROR, 0, "file", "CSV is empty")>>
    ELSE LET missing == SelectSeq(REQUIRED_COLUMNS, LAMBDA c : c \notin DOMAIN rs[1])
         IN  [k \in 1..Len(missing) |-> MissingColumnError(missing[k])]

validate_xpath(row_num, xpath) ==
    Opt(~StartsWith(xpath, "/"),
        ValidationResult(ERROR, row_num, "XPath",
                         "XPath must start with '/': " \o xpath \o "..."))

GroupKnown(group) == \E j \in 1..Len(PAGE_ORDER) : IsSubstr(group, PAGE_ORDER[j])

\* The empty-value finding raised as an ERROR.
EmptyValueWarning_AsError(row_num) ==
    ValidationResult(ERROR, row_num, "Value", "Input action with empty value")

EmptyValueWarning(row_num) ==
    ValidationResult(WARNING, row_num, "Value", "Input action with empty value")

ContentOfRow(row_num, row) ==
    LET action == Get(row, "Action", "")
        strategy == Get(row, "Strategy", "")
        xpath == Get(row, "XPath", "")
        group == Get(row, "Group", "")
    IN    Opt(action # "" /\ action \notin VALID_ACTIONS,
              ValidationResult(ERROR, row_num, "Action",
                               "Invalid action '" \o action \o "'. Must be one of: ['click', 'Input']"))
       \o Opt(strategy # "" /\ strategy \notin VALID_STRATEGIES,
              ValidationResult(WARNING, row_num, "Strategy",
                               "Unusual strategy '" \o strategy \o "'. Expected one of: "
                               \o "['id', 'data-testid', 'data-testid+text', 'absolute', 'name', 'class', 'text']"))
       \o (IF xpath # "" THEN validate_xpath(row_num, xpath) ELSE <<>>)
       \o Opt(action = "Input" /\ ~Truthy(row, "Value"), EmptyValueWarning(row_num))
       \o Opt(group # "" /\ ~GroupKnown(group),
              ValidationResult(WARNING, row_num, "Group", "Unknown group/page: '" \o group \o "'"))

validate_content(rs) == Flatten([i \in 1..Len(rs) |-> ContentOfRow(i, rs[i])])

\* The inner loop of _validate_sequence: the 0-based index of the first page that
\* contains the group or is contained in it, -1 when there is none.
PageIndex(group) ==
    LET hits == {j \in 1..Len(PAGE_ORDER) :
                    IsSubstr(PAGE_ORDER[j], group) \/ IsSubstr(group, PAGE_ORDER[j])}
    IN  IF hits = {} THEN -1 ELSE (CHOOSE j \in hits : \A k \in hits : j <= k) - 1

Max(a, b) == IF a >= b THEN a ELSE b

SequenceError(i, group) ==
    ValidationResult(ERROR, i, "Group",
                     "Page '" \o group \o "' appears after a later page. Expected order: "
                     \o "['Contact Info', 'Personal Information', 'Documents', 'Additional Details', "
                     \o "'Other Products', 'PEP / FATCA', 'PDF / Other Details']")

RECURSIVE SequenceFrom_LastPage(_, _, _)
\* A sequence check that compares with the page of the previous resolved row
\* instead of the running maximum.
SequenceFrom_LastPage(rs, i, current_page_index) ==
    IF i > Len(rs) THEN <<>>
    ELSE LET group == Get(rs[i], "Group", "")
             page_index == PageIndex(group)
         IN  IF page_index = -1
             THEN SequenceFrom_LastPage(rs, i + 1, current_page_index)
             ELSE Opt(page_index < current_page_index, SequenceError(i, group))
                  \o SequenceFrom_LastPage(rs, i + 1, page_index)

RECURSIVE SequenceFrom(_, _, _)
\* The loop of _validate_sequence from row i on, with the running maximum.
SequenceFrom(rs, i, current_page_index) ==
    IF i > Len(rs) THEN <<>>
    ELSE LET group == Get(rs[i], "Group", "")
             page_index == PageIndex(group)
         IN  IF page_index = -1
             THEN SequenceFrom(rs, i + 1, current_page_index)
             ELSE Opt(page_index < current_page_index, SequenceError(i, group))
                  \o SequenceFrom(rs, i + 1, Max(current_page_index, page_index))

validate_sequence(rs) == SequenceFrom(rs, 1, -1)

\* Boolean literals that are recognised in upper case as well.
BOOLEAN_LITERALS_AnyCase == {"true", "false", "True", "False", "TRUE", "FALSE"}

BOOLEAN_LITERALS == {"true", "false", "True", "False"}

RECURSIVE BooleanStates_FirstWins(_, _)
\* boolean_states in which the first Input row of an element is kept.
BooleanStates_FirstWins(rs, n) ==
    IF n = 0 THEN <<>>
    ELSE LET prev == BooleanStates_FirstWins(rs, n - 1)
             element == Get(rs[n], "Element", "")
             action == Get(rs[n], "Action", "")
             value == Get(rs[n], "Value", "")
         IN  IF action = "Input" /\ value \in BOOLEAN_LITERALS /\ element \notin DOMAIN prev
             THEN [e \in (DOMAIN prev) \cup {element} |->
                      IF e = element THEN Lower(value) = "true" ELSE prev[e]]
             ELSE prev

RECURSIVE BooleanStates(_, _)
\* boolean_states after the first n rows: a later Input row overwrites an earlier one.
BooleanStates(rs, n) ==
    IF n = 0 THEN <<>>
    ELSE LET prev == BooleanStates(rs, n - 1)
             element == Get(rs[n], "Element", "")
             action == Get(rs[n], "Action", "")
             value == Get(rs[n], "Value", "")
         IN  IF action = "Input" /\ value \in BOOLEAN_LITERALS
             THEN [e \in (DOMAIN prev) \cup {element} |->
                      IF e = element THEN Lower(value) = "true" ELSE prev[e]]
             ELSE prev

\* A presence test that only counts the elements of Input rows.
PresentElements_InputOnly(rs) ==
    {Get(rs[i], "Element", "") : i \in {k \in 1..Len(rs) : Get(rs[k], "Action", "") = "Input"}}

PresentElements(rs) == {Get(rs[i], "Element", "") : i \in 1..Len(rs)}

\* Conditional findings raised as ERRORs.
ConditionalSeverity_Error == ERROR

ConditionalSeverity == WARNING

\* str(True), str(False)
PyBool(b) == IF b THEN "True" ELSE "False"

RequiredWarning(rule, f) ==
    ValidationResult(ConditionalSeverity, 0, f,
                     "Field '" \o f \o "' may be required when '" \o rule.trigger_field
                     \o "' is " \o PyBool(rule.trigger_value))

ExcludedWarning(rule, f, actual_value) ==
    ValidationResult(ConditionalSeverity, 0, f,
                     "Field '" \o f \o "' may not be needed when '" \o rule.trigger_field
                     \o "' is " \o PyBool(actual_value))

ConditionalsOfRule(rs, states, rule) ==
    IF rule.trigger_field \in DOMAIN states
    THEN IF states[rule.trigger_field] = rule.trigger_value
         THEN LET missing == SelectSeq(rule.required_fields,
                                       LAMBDA f : f \notin PresentElements(rs))
              IN  [k \in 1..Len(missing) |-> RequiredWarning(rule, missing[k])]
         ELSE LET extra == SelectSeq(rule.excluded_fields,
                                     LAMBDA f : f \in PresentElements(rs))
              IN  [k \in 1..Len(extra) |-> ExcludedWarning(rule, extra[k], states[rule.trigger_field])]
    ELSE <<>>

validate_conditionals(rs, rl) ==
    LET states == BooleanStates(rs, Len(rs))
    IN  Flatten([k \in 1..Len(rl) |-> ConditionalsOfRule(rs, states, rl[k])])

\* A verdict that any finding, whatever its severity, fails.
HasErrors_AnyFinding(res) == \E k \in 1..Len(res) : res[k].severity \in {ERROR, WARNING, INFO}

HasErrors(res) == \E k \in 1..Len(res) : res[k].severity = ERROR

ReadFailure(doc) ==
    ValidationResult(ERROR, 0, "file", "Failed to read CSV: " \o doc.error)

\* A validate_csv that returns after a read failure without recording it.
RunValidateCsv_Unrecorded(doc, rl) ==
    IF ~doc.readable
    THEN [is_valid |-> FALSE, results |-> <<>>]
    ELSE LET rs == read_csv(doc)
             res == validate_structure(rs) \o validate_content(rs)
                    \o validate_sequence(rs) \o validate_conditionals(rs, rl)
         IN  [is_valid |-> ~HasErrors(res), results |-> res]

\* What validate_csv leaves in self.results and returns.
RunValidateCsv(doc, rl) ==
    IF ~doc.readable
    THEN [is_valid |-> FALSE, results |-> <<ReadFailure(doc)>>]
    ELSE LET rs == read_csv(doc)
             res == validate_structure(rs) \o validate_content(rs)
                    \o validate_sequence(rs) \o validate_conditionals(rs, rl)
         IN  [is_valid |-> ~HasErrors(res), results |-> res]

---------------------------------------------------------------------------
(* TestCaseValidator: the registries built from the schema *)

\* dict[key] = value
Put(d, key, value) == [x \in (DOMAIN d) \cup {key} |-> IF x = key THEN value ELSE d[x]]

RECURSIVE PutAll_FirstWins(_, _)
\* Assignments that keep the entry a key already has (dict.setdefault).
PutAll_FirstWins(d, writes) ==
    IF writes = <<>> THEN d
    ELSE PutAll_FirstWins(IF Head(writes)[1] \in DOMAIN d THEN d
                          ELSE Put(d, Head(writes)[1], Head(writes)[2]),
                          Tail(writes))

RECURSIVE PutAll(_, _)
\* The assignments d[k] = v of a sequence of <<k, v>>, in order.
PutAll(d, writes) ==
    IF writes = <<>> THEN d
    ELSE PutAll(Put(d, Head(writes)[1], Head(writes)[2]), Tail(writes))

\* The xpath_registry assignments of the options of a field.
OptionWrites(field) ==
    LET options == Get(field, "options", <<>>)
    IN  Flatten([k \in 1..Len(options) |->
                    Opt("xpath" \in DOMAIN options[k],
                        <<Get(options[k], "xpath", ""), Get(options[k], "value", "")>>)])

\* The xpath_registry assignments of one field, in the order of the loop body.
FieldWrites(field) ==
    LET field_id == Get(field, "id", "")
    IN  (IF field_id # ""
         THEN    Opt("xpath" \in DOMAIN field, <<Get(field, "xpath", ""), field_id>>)
              \o Opt("xpath_true" \in DOMAIN field,
                     <<Get(field, "xpath_true", ""), field_id \o "_true">>)
              \o Opt("xpath_false" \in DOMAIN field,
                     <<Get(field, "xpath_false", ""), field_id \o "_false">>)
              \o Opt("xpath_trigger" \in DOMAIN field,
                     <<Get(field, "xpath_trigger", ""), field_id \o "_trigger">>)
         ELSE <<>>)
        \o OptionWrites(field)

\* The fields of the schema in the order the three nested loops visit them.
SchemaFields(sch) ==
    LET pages == Get(sch, "pages", <<>>)
    IN  Flatten([p \in 1..Len(pages) |->
            LET sections == Get(pages[p], "sections", <<>>)
            IN  Flatten([q \in 1..Len(sections) |-> Get(sections[q], "fields", <<>>)])])

\* What _build_registries leaves in xpath_registry and element_registry.
build_registries(sch) ==
    LET fields == SchemaFields(sch)
        named == SelectSeq(fields, LAMBDA f : Get(f, "id", "") # "")
    IN  [xpath_registry |->
            PutAll(<<>>, Flatten([k \in 1..Len(fields) |-> FieldWrites(fields[k])])),
         element_registry |->
            PutAll(<<>>, [k \in 1..Len(named) |-> <<named[k].id, named[k]>>])]

---------------------------------------------------------------------------
(* ScenarioValidator: the scenario parser *)

\* Optional[T]: None is the empty sequence, a value v is <<v>>.
None == <<>>
Some(v) == <<v>>

IsDigit(c) == Len(c) = 1 /\ IndexOf(c, DigitChars) > 0

\* \w of the re module, on the characters of the model's texts.
IsWordChar(c) ==
    Len(c) = 1 /\ (IndexOf(c, LowerChars) > 0 \/ IndexOf(c, UpperChars) > 0 \/ IsDigit(c) \/ c = "_")

\* \s of the re module.
IsSpace(c) == c \in {" ", "\t", "\n", "\r", "\f"}

\* text[i:] starts with lit (i is 1-based).
StartsWithAt(text, i, lit) ==
    i + Len(lit) - 1 <= Len(text) /\ SubSeq(text, i, i + Len(lit) - 1) = lit

\* re.search(r'\bword\b', text): word occurs with no word character on either side.
SearchWord(word, text) ==
    \E i \in 1..(Len(text) - Len(word) + 1) :
        /\ StartsWithAt(text, i, word)
        /\ (i = 1 \/ ~IsWordChar(CharAt(text, i - 1)))
        /\ (i + Len(word) > Len(text) \/ ~IsWordChar(CharAt(text, i + Len(word))))

RECURSIVE SkipDigits(_, _)
\* The first position from i on that holds no digit (the end of \d+).
SkipDigits(text, i) ==
    IF i <= Len(text) /\ IsDigit(CharAt(text, i)) THEN SkipDigits(text, i + 1) ELSE i

RECURSIVE SkipSpaces(_, _)
\* The first position from i on that holds no white space (the end of \s*).
SkipSpaces(text, i) ==
    IF i <= Len(text) /\ IsSpace(CharAt(text, i)) THEN SkipSpaces(text, i + 1) ELSE i

\* (\d+)\s*lit matches at position i: a run of digits, any white space, lit.
CountMatchesAt(text, i, lit) ==
    /\ IsDigit(CharAt(text, i))
    /\ StartsWithAt(text, SkipSpaces(text, SkipDigits(text, i)), lit)

RECURSIVE ParseInt(_)
\* int() of a string of decimal digits.
ParseInt(digits) ==
    IF Len(digits) = 0 THEN 0
    ELSE 10 * ParseInt(SubSeq(digits, 1, Len(digits) - 1))
         + (IndexOf(CharAt(digits, Len(digits)), DigitChars) - 1)

\* re.search(r'(\d+)\s*lit', text): group 1 of the leftmost match as an int, or None.
SearchCount(text, lit) ==
    LET starts == {i \in 1..Len(text) : CountMatchesAt(text, i, lit)}
    IN  IF starts = {} THEN None
        ELSE LET i == CHOOSE i \in starts : \A k \in starts : i <= k
             IN  Some(ParseInt(SubSeq(text, i, SkipDigits(text, i) - 1)))

\* The keyword tables in insertion order, which is the order dict.items() yields.
EMPLOYMENT_KEYWORDS ==
    << <<"full-time permanent", "FULL TIME PERMANENT">>,
       <<"full-time temporary", "FULL TIME TEMPORARY">>,
       <<"part-time", "PART TIME">>,
       <<"self-employed", "SELF EMPLOYED">>,
       <<"unemployed", "UNEMPLOYED">>,
       <<"retired pensioned", "RETIRED PENSIONED">>,
       <<"retired non-pensioned", "RETIRED NON PENSIONED">> >>

MARITAL_KEYWORDS ==
    << <<"single", "SINGLE">>,
       <<"married", "MARRIED">>,
       <<"divorced", "DIVORCED">>,
       <<"widowed", "WIDOWED">>,
       <<"common law", "COMMON LAW">> >>

RECURSIVE FirstKeyword_LastInTable(_, _, _)
\* A keyword loop without the break: the last matching entry wins.
FirstKeyword_LastInTable(table, k, text) ==
    IF k > Len(table) THEN None
    ELSE LET rest == FirstKeyword_LastInTable(table, k + 1, text)
         IN  IF rest # None THEN rest
             ELSE IF IsSubstr(table[k][1], text) THEN Some(table[k][2])
             ELSE None

RECURSIVE FirstKeyword(_, _, _)
\* for keyword, value in table.items(): if keyword in text: return value
FirstKeyword(table, k, text) ==
    IF k > Len(table) THEN None
    ELSE IF IsSubstr(table[k][1], text) THEN Some(table[k][2])
    ELSE FirstKeyword(table, k + 1, text)

\* The text the parser matches against.
ScenarioLower(text) == Lower(text)

\* ScenarioRequirements() with its defaults.
ScenarioRequirements ==
    [employment_status |-> None, employer |-> None, sector |-> None, salary_range |-> None,
     marital_status |-> None, gender |-> None,
     has_beneficiary |-> None, beneficiary_count |-> None,
     has_joint_partner |-> None, joint_partner_count |-> None,
     lincu_card |-> None, fip_application |-> None, fip_plan |-> None,
     permanent_address_same |-> None,
     all_pep_no |-> None, all_fatca_no |-> None, pep_positive_fields |-> <<>>]

\* has_X / X_count of the "no X" substring and the "(\d+)\s*X" pattern.
ParseCount(t, noLit, lit) ==
    IF IsSubstr(noLit, t) THEN [has |-> Some(FALSE), count |-> Some(0)]
    ELSE IF SearchCount(t, lit) # None THEN [has |-> Some(TRUE), count |-> SearchCount(t, lit)]
    ELSE [has |-> None, count |-> None]

parse_scenario(text) ==
    LET t == ScenarioLower(text)
        ben == ParseCount(t, "no beneficiar", "beneficiar")
        jp == ParseCount(t, "no joint partner", "joint partner")
        fipNo == IsSubstr("no fip", t) \/ IsSubstr("not applying for fip", t)
        fipYes == ~fipNo /\ IsSubstr("fip", t)
        hasNo == IsSubstr("no", t)
    IN  [ScenarioRequirements EXCEPT
            !.employment_status = FirstKeyword(EMPLOYMENT_KEYWORDS, 1, t),
            !.marital_status = FirstKeyword(MARITAL_KEYWORDS, 1, t),
            !.gender = IF SearchWord("male", t) THEN Some("male")
                       ELSE IF SearchWord("female", t) THEN Some("female")
                       ELSE None,
            !.has_beneficiary = ben.has,
            !.beneficiary_count = ben.count,
            !.has_joint_partner = jp.has,
            !.joint_partner_count = jp.count,
            !.lincu_card = IF IsSubstr("no lincu", t) \/ IsSubstr("not applying for lincu", t)
                           THEN Some(FALSE)
                           ELSE IF IsSubstr("lincu card", t) \/ IsSubstr("applying for lincu", t)
                           THEN Some(TRUE)
                           ELSE None,
            !.fip_application = IF fipNo THEN Some(FALSE)
                                ELSE IF fipYes THEN Some(TRUE)
                                ELSE None,
            !.fip_plan = IF ~fipYes THEN None
                         ELSE IF IsSubstr("plan a", t) THEN Some("Plan A")
                         ELSE IF IsSubstr("plan b", t) THEN Some("Plan B")
                         ELSE IF IsSubstr("plan c", t) THEN Some("Plan C")
                         ELSE None,
            !.permanent_address_same =
                IF IsSubstr("permanent address same", t) \/ IsSubstr("same as mailing", t)
                THEN Some(TRUE)
                ELSE IF IsSubstr("different", t) /\ IsSubstr("address", t) THEN Some(FALSE)
                ELSE None,
            !.all_pep_no = IF hasNo /\ (IsSubstr("all pep", t) \/ IsSubstr("pep/fatca", t))
                           THEN Some(TRUE) ELSE None,
            !.all_fatca_no = IF hasNo /\ (IsSubstr("all fatca", t) \/ IsSubstr("pep/fatca", t))
                             THEN Some(TRUE) ELSE None]

---------------------------------------------------------------------------
(* ScenarioValidator: lookups over the rows and validate *)

PASS == "PASS"
FAIL == "FAIL"
WARN == "WARN"

\* details is kept as its parts: the text and, for missing pages, the set of them.
ValidationCheck(name, result, expected, actual, details) ==
    [name |-> name, result |-> result, expected |-> expected, actual |-> actual,
     details |-> details]

\* row.get(key) == text: the key is there and holds text.
Holds(row, key, text) == key \in DOMAIN row /\ row[key] = text

\* The first row of element_name with Action Input, 0 when there is none.
FirstInputRow(rs, element_name) ==
    LET hits == {i \in 1..Len(rs) :
                    Holds(rs[i], "Element", element_name) /\ Holds(rs[i], "Action", "Input")}
    IN  IF hits = {} THEN 0 ELSE CHOOSE i \in hits : \A k \in hits : i <= k

\* row.get('Value') of that row; None when there is no such row or it has no Value.
get_field_value(rs, element_name) ==
    LET i == FirstInputRow(rs, element_name)
    IN  IF i = 0 THEN None
        ELSE IF "Value" \in DOMAIN rs[i] THEN Some(rs[i]["Value"]) ELSE None

\* The click rows of element_name whose XPath holds label[1] or label[2].
LabelClickRows(rs, element_name) ==
    {i \in 1..Len(rs) :
        /\ Holds(rs[i], "Element", element_name) /\ Holds(rs[i], "Action", "click")
        /\ \/ IsSubstr("label[1]", Get(rs[i], "XPath", ""))
           \/ IsSubstr("label[2]", Get(rs[i], "XPath", ""))}

\* A boolean lookup that prefers the click inference to the Input value.
get_boolean_value_ClickFirst(rs, element_name) ==
    LET value == get_field_value(rs, element_name)
        clicks == LabelClickRows(rs, element_name)
    IN  IF clicks # {}
        THEN LET i == CHOOSE i \in clicks : \A k \in clicks : i <= k
             IN  Some(IsSubstr("label[1]", Get(rs[i], "XPath", "")))
        ELSE IF value # None THEN Some(Lower(value[1]) = "true")
        ELSE None

get_boolean_value(rs, element_name) ==
    LET value == get_field_value(rs, element_name)
        clicks == LabelClickRows(rs, element_name)
    IN  IF value # None THEN Some(Lower(value[1]) = "true")
        ELSE IF clicks = {} THEN None
        ELSE LET i == CHOOSE i \in clicks : \A k \in clicks : i <= k
             IN  Some(IsSubstr("label[1]", Get(rs[i], "XPath", "")))

has_element(rs, element_name) == \E i \in 1..Len(rs) : Holds(rs[i], "Element", element_name)

\* re.search(pattern, element, re.IGNORECASE) for the literal patterns validate uses.
count_element_occurrences(rs, element_pattern) ==
    Cardinality({i \in 1..Len(rs) :
                    IsSubstr(Lower(element_pattern), Lower(Get(rs[i], "Element", "")))})

RECURSIVE DropdownFrom(_, _, _, _)
\* The loop of get_selected_dropdown_value from row i on.
DropdownFrom(rs, i, trigger_text, found_trigger) ==
    IF i > Len(rs) THEN None
    ELSE LET element == Get(rs[i], "Element", "")
             action == Get(rs[i], "Action", "")
         IN  IF IsSubstr(Lower(trigger_text), Lower(element)) /\ action = "click"
             THEN DropdownFrom(rs, i + 1, trigger_text, TRUE)
             ELSE IF found_trigger /\ action = "click"
                     /\ IsSubstr("option", Lower(Get(rs[i], "XPath", "")))
             THEN Some(element)
             ELSE DropdownFrom(rs, i + 1, trigger_text, found_trigger)

\* A dropdown lookup that takes the first option row, triggered or not.
get_selected_dropdown_value_NoTrigger(rs, trigger_text) == DropdownFrom(rs, 1, trigger_text, TRUE)

get_selected_dropdown_value(rs, trigger_text) == DropdownFrom(rs, 1, trigger_text, FALSE)

RECURSIVE IntToStr(_)
\* str() of a natural number.
IntToStr(n) ==
    IF n < 10 THEN CharAt(DigitChars, n + 1)
    ELSE IntToStr(n \div 10) \o CharAt(DigitChars, (n % 10) + 1)

\* str() of an Optional[bool].
StrOpt(v) == IF v = None THEN "None" ELSE PyBool(v[1])

EXPECTED_PAGES ==
    {"Contact Info", "Documents", "Additional Details", "Other Products", "PEP / FATCA",
     "PDF / Other Details"}

PEP_FIELDS ==
    <<"isHeadOfState", "isHeadOfGovt", "isSenPolitician", "isSenGovtOfficial",
      "isSenJudicialOfficial", "isSenMilitaryOfficial", "isSenExecSOC", "isImpPPO",
      "isImmediateFamily", "isMemberOfSeniorManagement", "isPepAssociate">>

FATCA_FIELDS ==
    <<"isCitizenOfOtherCountry", "isGreenCardHolder", "isGranteePOA",
      "hasStandingInstructIncome", "isDisclosureTaxResidency">>

RowCountCheck(rs) ==
    ValidationCheck("Row Count", INFO, "100-400 typical", IntToStr(Len(rs)),
                    <<"Total rows in generated CSV">>)

\* A page match that only looks for the page name inside the Group.
PagesNormalized_OneWay(rs) ==
    {ep \in EXPECTED_PAGES :
        \E i \in 1..Len(rs) : IsSubstr(Lower(ep), Lower(Get(rs[i], "Group", "")))}

\* The expected pages some row's Group matches, ignoring case, in either direction.
PagesNormalized(rs) ==
    {ep \in EXPECTED_PAGES :
        \E i \in 1..Len(rs) :
            LET p == Lower(Get(rs[i], "Group", ""))
            IN  IsSubstr(Lower(ep), p) \/ IsSubstr(p, Lower(ep))}

PageCoverageCheck(rs) ==
    LET pages_normalized == PagesNormalized(rs)
        missing_pages == EXPECTED_PAGES \ pages_normalized
    IN  ValidationCheck("Page Coverage",
                        IF missing_pages = {} THEN PASS ELSE FAIL,
                        "All 6 pages",
                        IntToStr(Cardinality(pages_normalized)) \o "/6 pages",
                        IF missing_pages # {} THEN <<"Missing: ", missing_pages>>
                        ELSE <<"All pages covered">>)

\* A status check that reads the field's Input value, not the dropdown's selection.
DropdownCheck_ByFieldValue(rs, name, trigger_text, required) ==
    LET actual == get_field_value(rs, trigger_text)
        match == actual # None /\ actual[1] # ""
                 /\ IsSubstr(Lower(required), Lower(actual[1]))
    IN  ValidationCheck(name, IF match THEN PASS ELSE FAIL, required,
                        IF actual # None /\ actual[1] # "" THEN actual[1] ELSE "Not found",
                        <<>>)

\* The employment and marital status checks: the dropdown's selection must hold the label.
DropdownCheck(rs, name, trigger_text, required) ==
    LET actual == get_selected_dropdown_value(rs, trigger_text)
        match == actual # None /\ actual[1] # ""
                 /\ IsSubstr(Lower(required), Lower(actual[1]))
    IN  ValidationCheck(name, IF match THEN PASS ELSE FAIL, required,
                        IF actual # None /\ actual[1] # "" THEN actual[1] ELSE "Not found",
                        <<>>)

\* A section check without the fallback: an unset boolean field counts as False.
SectionCheck_NoFallback(rs, name, flag, fallback, required) ==
    LET found == get_boolean_value(rs, flag)
        actual_value == found = Some(TRUE)
    IN  ValidationCheck(name, IF actual_value = required THEN PASS ELSE FAIL,
                        PyBool(required), PyBool(actual_value), <<>>)

\* The beneficiary and joint partner checks: the boolean field, else the presence
\* of a field of the section.
SectionCheck(rs, name, flag, fallback, required) ==
    LET found == get_boolean_value(rs, flag)
        actual_value == IF found = None THEN has_element(rs, fallback) ELSE found[1]
    IN  ValidationCheck(name, IF actual_value = required THEN PASS ELSE FAIL,
                        PyBool(required), PyBool(actual_value), <<>>)

BeneficiaryCountCheck(rs, expected) ==
    LET count == count_element_occurrences(rs, "beneficiaryMobileNo")
    IN  ValidationCheck("Beneficiary Count", IF count = expected THEN PASS ELSE WARN,
                        IntToStr(expected), IntToStr(count), <<>>)

\* A flag check that takes a field the CSV does not answer for False.
FlagCheck_AbsentIsFalse(rs, name, flag, required) ==
    LET found == get_boolean_value(rs, flag)
        actual_value == IF found = None THEN Some(FALSE) ELSE found
    IN  ValidationCheck(name, IF actual_value = Some(required) THEN PASS ELSE FAIL,
                        PyBool(required), StrOpt(actual_value), <<>>)

\* The LinCU and FIP checks: the boolean field alone.
FlagCheck(rs, name, flag, required) ==
    LET actual_value == get_boolean_value(rs, flag)
    IN  ValidationCheck(name, IF actual_value = Some(required) THEN PASS ELSE FAIL,
                        PyBool(required),
                        IF actual_value # None THEN StrOpt(actual_value) ELSE "Not found",
                        <<>>)

\* An all-no check that asks every field to resolve to false.
AllNoCheck_UnsetFails(rs, name, fields) ==
    LET all_false == \A k \in 1..Len(fields) : get_boolean_value(rs, fields[k]) = Some(FALSE)
    IN  ValidationCheck(name, IF all_false THEN PASS ELSE FAIL, "All False",
                        IF all_false THEN "All False" ELSE "Some True", <<>>)

AllNoCheck(rs, name, fields) ==
    LET all_false == \A k \in 1..Len(fields) : get_boolean_value(rs, fields[k]) # Some(TRUE)
    IN  ValidationCheck(name, IF all_false THEN PASS ELSE FAIL, "All False",
                        IF all_false THEN "All False" ELSE "Some True", <<>>)

\* An OTP check that fails the scenario below two entries.
OtpCheck_FailBelowTwo(rs) ==
    LET otp_count == count_element_occurrences(rs, "otp-input-0")
    IN  ValidationCheck("OTP Verifications", IF otp_count >= 2 THEN PASS ELSE FAIL,
                        "2 (initial + final)", IntToStr(otp_count), <<>>)

OtpCheck(rs) ==
    LET otp_count == count_element_occurrences(rs, "otp-input-0")
    IN  ValidationCheck("OTP Verifications", IF otp_count >= 2 THEN PASS ELSE WARN,
                        "2 (initial + final)", IntToStr(otp_count), <<>>)

\* The row count and page coverage checks, appended on every call.
BasicChecks(rs) == <<RowCountCheck(rs), PageCoverageCheck(rs)>>

\* if req.employment_status: ... if req.marital_status: ...
StatusChecks(rs, r) ==
       (IF r.employment_status # None /\ r.employment_status[1] # ""
        THEN <<DropdownCheck(rs, "Employment Status", "Employment Status", r.employment_status[1])>>
        ELSE <<>>)
    \o (IF r.marital_status # None /\ r.marital_status[1] # ""
        THEN <<DropdownCheck(rs, "Marital Status", "Marital Status", r.marital_status[1])>>
        ELSE <<>>)

\* if req.has_beneficiary is not None: ... if req.has_joint_partner is not None: ...
SectionChecks(rs, r) ==
       (IF r.has_beneficiary # None
        THEN <<SectionCheck(rs, "Has Beneficiary", "hasBeneficiary", "beneficiaryMobileNo",
                            r.has_beneficiary[1])>>
             \o (IF r.beneficiary_count # None /\ r.beneficiary_count[1] > 0
                 THEN <<BeneficiaryCountCheck(rs, r.beneficiary_count[1])>>
                 ELSE <<>>)
        ELSE <<>>)
    \o (IF r.has_joint_partner # None
        THEN <<SectionCheck(rs, "Has Joint Partner", "hasJointPartner", "customerId",
                            r.has_joint_partner[1])>>
        ELSE <<>>)

\* Flag checks that take an unset requirement for False.
FlagChecks_UnsetAsFalse(rs, r) ==
       <<FlagCheck(rs, "LinCU Card Application", "isApplyingForLincuCardApplication",
                   r.lincu_card = Some(TRUE))>>
    \o <<FlagCheck(rs, "FIP Application", "isApplyingForFipApplication",
                   r.fip_application = Some(TRUE))>>

\* if req.lincu_card is not None: ... if req.fip_application is not None: ...
FlagChecks(rs, r) ==
       (IF r.lincu_card # None
        THEN <<FlagCheck(rs, "LinCU Card Application", "isApplyingForLincuCardApplication",
                         r.lincu_card[1])>>
        ELSE <<>>)
    \o (IF r.fip_application # None
        THEN <<FlagCheck(rs, "FIP Application", "isApplyingForFipApplication",
                         r.fip_application[1])>>
        ELSE <<>>)

\* if req.all_pep_no: ... if req.all_fatca_no: ...
AllNoChecks(rs, r) ==
       (IF r.all_pep_no = Some(TRUE)
        THEN <<AllNoCheck(rs, "All PEP Questions = No", PEP_FIELDS)>>
        ELSE <<>>)
    \o (IF r.all_fatca_no = Some(TRUE)
        THEN <<AllNoCheck(rs, "All FATCA Questions = No", FATCA_FIELDS)>>
        ELSE <<>>)

\* The checks validate appends, in order.
ChecksOf(rs, r) ==
    BasicChecks(rs) \o StatusChecks(rs, r) \o SectionChecks(rs, r) \o FlagChecks(rs, r)
    \o AllNoChecks(rs, r) \o <<OtpCheck(rs)>>

\* A verdict that fails on anything but PASS and INFO.
NoFails_NoWarns(cs) == Cardinality({k \in 1..Len(cs) : cs[k].result \in {FAIL, WARN}}) = 0

\* fails == 0
NoFails(cs) == Cardinality({k \in 1..Len(cs) : cs[k].result = FAIL}) = 0

---------------------------------------------------------------------------
(* List objects: validate_csv and validate return the list the validator holds *)

\* A reset that empties the list object the attribute refers to.
ResetList_InPlace(h, ref) == [heap |-> [h EXCEPT ![ref] = <<>>], ref |-> ref]

\* self.results = [] / self.checks = []: the attribute is bound to a new, empty
\* list object; the object it referred to is left as it is.
ResetList(h, ref) == [heap |-> Append(h, <<>>), ref |-> Len(h) + 1]

\* self.results.append(...) / self.checks.append(...), one after the other.
Extend(h, ref, items) == [h EXCEPT ![ref] = @ \o items]

\* validate_csv on the list objects: reset, append the findings, and return the
\* verdict with the list object itself.
validate_csv(h, ref, doc, rl) ==
    LET reset == ResetList(h, ref)
        h2 == Extend(reset.heap, reset.ref, RunValidateCsv(doc, rl).results)
    IN  [heap |-> h2, ref |-> reset.ref,
         verdict |-> IF ~doc.readable THEN FALSE ELSE ~HasErrors(h2[reset.ref])]

\* validate on the list objects.
validate(h, ref, rs, sc) ==
    LET reset == ResetList(h, ref)
        h2 == Extend(reset.heap, reset.ref, ChecksOf(rs, parse_scenario(sc)))
    IN  [heap |-> h2, ref |-> reset.ref, verdict |-> NoFails(h2[reset.ref])]

----------------------------------------------------------------------------

(* Inputs of the TestCaseValidator run *)

\* The longest CSV in data lines.
MaxRows == 3

FullHeader == REQUIRED_COLUMNS

BaseRow ==
    [Group |-> "Contact Info", Element |-> "firstName", Action |-> "Input",
     Value |-> "John", Strategy |-> "id", XPath |-> "/html/body/input"]

\* "" and "Details" are inside a page name, "Documents Upload" holds one,
\* "Login" matches none.
GroupPool ==
    {"", "Contact Info", "Documents", "Additional Details", "Details",
     "Documents Upload", "Login"}

GroupRows == {[BaseRow EXCEPT !.Group = g] : g \in GroupPool}

\* Rows that set the trigger (true, False, an unrecognised TRUE, a click) and
\* rows that make a required or an excluded field present.
CondRows ==
    {[BaseRow EXCEPT !.Element = "isApplyingForFipApplication", !.Action = av[1], !.Value = av[2]] :
        av \in {<<"Input", "true">>, <<"Input", "False">>, <<"Input", "TRUE">>, <<"click", "true">>}}
    \cup {[BaseRow EXCEPT !.Element = "fipPlanSelection", !.Action = "click", !.Value = ""],
          [BaseRow EXCEPT !.Element = "lincuCardType", !.Value = "true"]}

\* Rows that differ in Action and Value, and rows that differ in the locator.
ContentRows ==
    {[BaseRow EXCEPT !.Action = av[1], !.Value = av[2]] :
        av \in {<<"click", "">>, <<"Input", "">>, <<"hover", "">>, <<"", "">>}}
    \cup {[BaseRow EXCEPT !.Strategy = sx[1], !.XPath = sx[2]] :
        sx \in {<<"id", "/html/body/input">>, <<"css", "/html/body/input">>, <<"", "html/body/input">>}}

HeaderPool ==
    {FullHeader,
     <<"index">> \o FullHeader,
     <<"Group", "Element", "Action", "Strategy", "XPath">>,
     <<"Element", "Action", "Value", "Strategy">>}

SeqsUpTo(S, n) == UNION {[1..k -> S] : k \in 0..n}

\* The CSV document with this header and these rows (a row's cell of a column
\* that is no field of the row, such as index, is its line number).
Document(header, rs) ==
    [exists |-> TRUE, readable |-> TRUE, error |-> "", header |-> header,
     lines |-> [i \in 1..Len(rs) |->
                  [k \in 1..Len(header) |->
                      IF header[k] \in DOMAIN rs[i] THEN rs[i][header[k]] ELSE "n"]]]

\* A file that is there and that open() refuses.
Unreadable ==
    [exists |-> TRUE, readable |-> FALSE, error |-> "[Errno 13] Permission denied",
     header |-> <<>>, lines |-> <<>>]

\* A path that names no file.
Missing ==
    [exists |-> FALSE, readable |-> FALSE, error |-> "[Errno 2] No such file or directory",
     header |-> <<>>, lines |-> <<>>]

FipRule ==
    [trigger_field |-> "isApplyingForFipApplication", trigger_value |-> TRUE,
     required_fields |-> <<"fipPlanSelection">>, excluded_fields |-> <<>>]

FipRuleExcluding == [FipRule EXCEPT !.excluded_fields = <<"fipPlanSelection", "lincuCardType">>]

NoFipRule ==
    [trigger_field |-> "isApplyingForFipApplication", trigger_value |-> FALSE,
     required_fields |-> <<"lincuCardType">>, excluded_fields |-> <<"fipPlanSelection">>]

RuleSets == {<<>>, <<FipRule>>, <<FipRuleExcluding>>, <<FipRule, NoFipRule>>}

\* The (document, rule set) pairs a run is started on.
InputsT ==
         {<<Document(h, rs), <<FipRule>>>> : h \in HeaderPool, rs \in SeqsUpTo(GroupRows, MaxRows)}
    \cup {<<Document(h, rs), <<FipRule>>>> : h \in HeaderPool, rs \in SeqsUpTo(ContentRows, MaxRows)}
    \cup {<<Document(FullHeader, rs), rl>> : rs \in SeqsUpTo(CondRows, MaxRows), rl \in RuleSets}
    \cup {<<Unreadable, rl>> : rl \in RuleSets}
    \cup {<<Missing, rl>> : rl \in RuleSets}

---------------------------------------------------------------------------
(* The TestCaseValidator run: main() builds the validator and calls validate_csv *)

\* The registries of a run that does not look at them.
IdleR ==
    /\ schema = <<>> /\ xpath_registry = <<>> /\ element_registry = <<>> /\ pcR = "off"

\* The list objects of a run that makes one call.
IdleC ==
    /\ heap = <<>> /\ self_results = 0 /\ self_checks = 0 /\ calls = <<>>

IdleT ==
    /\ csv = Unreadable /\ rules = <<>> /\ results = <<>>
    /\ is_valid = "none" /\ pc = "off"

IdleS ==
    /\ rows = <<>> /\ scenario = "" /\ req = <<>> /\ checks = <<>>
    /\ all_passed = "none" /\ pcS = "off"

InitT ==
    /\ \E in \in InputsT : csv = in[1] /\ rules = in[2]
    /\ results = <<>>
    /\ is_valid = "none"
    /\ pc = "ready"
    /\ IdleS
    /\ IdleR
    /\ IdleC

\* main: a path that names no file ends the run before any validation.
FileNotFound ==
    /\ pc = "ready"
    /\ ~csv.exists
    /\ pc' = "aborted"
    /\ UNCHANGED <<csv, rules, results, is_valid>>
    /\ UNCHANGED varsS
    /\ UNCHANGED varsR
    /\ UNCHANGED varsC

ValidateCsv ==
    /\ pc = "ready"
    /\ csv.exists
    /\ LET out == RunValidateCsv(csv, rules)
       IN  /\ results' = out.results
           /\ is_valid' = out.is_valid
    /\ pc' = "done"
    /\ UNCHANGED <<csv, rules>>
    /\ UNCHANGED varsS
    /\ UNCHANGED varsR
    /\ UNCHANGED varsC

NextT == FileNotFound \/ ValidateCsv

Spec == InitT /\ [][NextT]_vars

---------------------------------------------------------------------------
(* Inputs of the registry build *)

\* The most fields of an enumerated schema.
MaxFields == 3

\* Fields that share XPath strings with each other and within themselves, that
\* repeat an id, that have an empty id or none, and options with and without
\* a value.
FieldPool ==
    {[id |-> "isFip", xpath_true |-> "/a", xpath_false |-> "/b"],
     [id |-> "plan", xpath |-> "/a", xpath_trigger |-> "/t",
      options |-> <<[xpath |-> "/o1", value |-> "Plan A"], [xpath |-> "/a", value |-> "Plan B"],
                    [value |-> "Plan C"]>>],
     [id |-> "", xpath |-> "/c", options |-> <<[xpath |-> "/o1", value |-> "X"]>>],
     [id |-> "plan", xpath |-> "/p", type |-> "text"],
     [label |-> "Other", options |-> <<[xpath |-> "/b"]>>],
     [id |-> "name", xpath |-> "/t", xpath_true |-> "/t"]}

\* All the fields in one section of one page.
OneSection(fs) == [pages |-> <<[name |-> "Contact Info", sections |-> <<[fields |-> fs]>>]>>]

\* A page with one section for each field.
PagePerField(fs) == [pages |-> [k \in 1..Len(fs) |-> [sections |-> <<[fields |-> <<fs[k]>>]>>]]]

\* The first field in a section, then a section without fields, then the rest,
\* and a page without sections.
SplitSections(fs) ==
    [pages |-> <<[sections |-> <<[fields |-> IF fs = <<>> THEN <<>> ELSE <<Head(fs)>>],
                                 [title |-> "Empty"],
                                 [fields |-> IF fs = <<>> THEN <<>> ELSE Tail(fs)]>>],
                 [name |-> "Documents"]>>]

SchemaPool ==
    {[version |-> "1"]}
    \cup {OneSection(fs) : fs \in SeqsUpTo(FieldPool, MaxFields)}
    \cup {PagePerField(fs) : fs \in SeqsUpTo(FieldPool, MaxFields)}
    \cup {SplitSections(fs) : fs \in SeqsUpTo(FieldPool, MaxFields)}

---------------------------------------------------------------------------
(* The construction of a TestCaseValidator: __init__ loads the schema and calls
   _build_registries *)

InitR ==
    /\ schema \in SchemaPool
    /\ xpath_registry = <<>>
    /\ element_registry = <<>>
    /\ pcR = "loaded"
    /\ IdleT
    /\ IdleS
    /\ IdleC

BuildRegistries ==
    /\ pcR = "loaded"
    /\ LET out == build_registries(schema)
       IN  /\ xpath_registry' = out.xpath_registry
           /\ element_registry' = out.element_registry
    /\ pcR' = "built"
    /\ UNCHANGED schema
    /\ UNCHANGED varsT
    /\ UNCHANGED varsS
    /\ UNCHANGED varsC

NextR == BuildRegistries

SpecRegistry == InitR /\ [][NextR]_vars

---------------------------------------------------------------------------
(* Inputs of the ScenarioValidator run *)

\* The most fragments joined into an enumerated scenario text.
MaxFragments == 2

Row(g, e, a, v, x) ==
    [Group |-> g, Element |-> e, Action |-> a, Value |-> v, Strategy |-> "absolute", XPath |-> x]

\* One row on each of the six expected pages, with one OTP entry.
CoverRows ==
    <<Row("Contact Info", "otp-input-0", "Input", "1", "//input[@id='otp-input-0']"),
      Row("Documents", "idNumber", "Input", "A1", "//input[@id='idNumber']"),
      Row("Additional Details", "occupation", "Input", "Clerk", "//input[@id='occupation']"),
      Row("Other Products", "Next", "click", "", "//button[text()='Next']"),
      Row("PEP / FATCA", "Next", "click", "", "//button[text()='Next']"),
      Row("PDF / Other Details", "Submit", "click", "", "//button[text()='Submit']")>>

\* Rows that answer a boolean field by Input or by clicking one of its two labels.
BoolRows ==
    {Row("PEP / FATCA", "isHeadOfState", "click", "", "//div[@id='isHeadOfState']/label[2]"),
     Row("PEP / FATCA", "isHeadOfState", "click", "", "//div[@id='isHeadOfState']/label[1]"),
     Row("PEP / FATCA", "isHeadOfState", "Input", "True", "//input[@id='isHeadOfState']"),
     Row("Other Products", "hasBeneficiary", "Input", "false", "//input[@id='hasBeneficiary']"),
     Row("Other Products", "beneficiaryMobileNo", "Input", "555-1234",
         "//input[@id='beneficiaryMobileNo']")}

BoolScenarios ==
    {"no beneficiaries, all PEP questions answered no", "1 beneficiaries, all fatca no"}

\* Rows that open a dropdown and pick an option, and a second OTP entry.
DropdownRows ==
    {Row("Additional Details", "Employment Status", "click", "", "//div[@id='employment']"),
     Row("Additional Details", "FULL TIME PERMANENT", "click", "", "//li[@role='option'][1]"),
     Row("Additional Details", "Employment Status: PART TIME", "click", "", "//li[@role='Option'][3]"),
     Row("Contact Info", "Marital Status", "click", "", "//div[@id='marital']"),
     Row("PDF / Other Details", "otp-input-0", "Input", "1", "//input[@id='otp-input-0']")}

DropdownScenarios == {"Full-time permanent", "single, part-time"}

\* Rows that answer the last FATCA and PEP questions and one in the middle.
AllNoRows ==
    {Row("PEP / FATCA", "isGreenCardHolder", "click", "", "//div[@id='isGreenCardHolder']/label[1]"),
     Row("PEP / FATCA", "isDisclosureTaxResidency", "Input", "true",
         "//input[@id='isDisclosureTaxResidency']"),
     Row("PEP / FATCA", "isPepAssociate", "Input", "false", "//input[@id='isPepAssociate']")}

\* Rows that answer the LinCU and FIP questions by Input and by a label click.
FlagRows ==
    {Row("Other Products", "isApplyingForLincuCardApplication", "Input", "true",
         "//input[@id='isApplyingForLincuCardApplication']"),
     Row("Other Products", "isApplyingForLincuCardApplication", "click", "",
         "//div[@id='isApplyingForLincuCardApplication']/label[2]"),
     Row("Other Products", "isApplyingForFipApplication", "Input", "false",
         "//input[@id='isApplyingForFipApplication']")}

FlagScenarios == {"lincu card, no fip", "no lincu, fip plan a"}

\* Rows on few pages, or on all of them by a Group every page name contains.
PageRows ==
    {Row(g, "Next", "click", "", "//button[text()='Next']") :
        g \in {"", "t", "contact info", "Documents Upload", "Login"}}

Fragments ==
    <<"Single male", "married female", "full-time permanent", "Part-Time",
      "no beneficiaries", "2 beneficiaries", "0 beneficiaries", "2 joint partners",
      "no joint partners", "no lincu", "lincu card", "fip plan b", "all pep/fatca no">>

RECURSIVE Join(_)
\* ", ".join(parts)
Join(parts) ==
    IF parts = <<>> THEN ""
    ELSE IF Len(parts) = 1 THEN parts[1]
    ELSE parts[1] \o ", " \o Join(Tail(parts))

LongScenarios ==
    {"Single male, full-time permanent, no beneficiaries, 2 joint partners",
     "Married female, part-time, 3 beneficiaries, no joint partners, lincu card, no fip, all pep/fatca no",
     "Widowed, retired non-pensioned, 0 beneficiaries, 1 joint partners, not applying for lincu, fip plan a, all pep no"}

ScenarioPool ==
    {Join([k \in DOMAIN ix |-> Fragments[ix[k]]]) : ix \in SeqsUpTo(1..Len(Fragments), MaxFragments)}
    \cup LongScenarios

HeaderPoolS == {FullHeader, <<"Group", "Element", "Action", "Strategy", "XPath">>}

\* The (document, scenario text) pairs a run is started on.
InputsS ==
         {<<Document(h, CoverRows \o rs), sc>> :
             h \in HeaderPoolS, rs \in SeqsUpTo(BoolRows, MaxRows), sc \in BoolScenarios}
    \cup {<<Document(FullHeader, CoverRows \o rs), sc>> :
             rs \in SeqsUpTo(DropdownRows, MaxRows), sc \in DropdownScenarios}
    \cup {<<Document(FullHeader, CoverRows \o rs), "all pep/fatca no">> :
             rs \in SeqsUpTo(AllNoRows, MaxRows)}
    \cup {<<Document(FullHeader, CoverRows \o rs), sc>> :
             rs \in SeqsUpTo(FlagRows, MaxRows), sc \in FlagScenarios}
    \cup {<<Document(FullHeader, rs), "Single male">> : rs \in SeqsUpTo(PageRows, MaxRows)}
    \cup {<<Document(FullHeader, CoverRows), sc>> : sc \in ScenarioPool}

---------------------------------------------------------------------------
(* The ScenarioValidator run: main() builds the validator and calls validate *)

InitS ==
    /\ \E in \in InputsS : rows = read_csv(in[1]) /\ scenario = in[2]
    /\ req = ScenarioRequirements
    /\ checks = <<>>
    /\ all_passed = "none"
    /\ pcS = "ready"
    /\ IdleT
    /\ IdleR
    /\ IdleC

Validate ==
    /\ pcS = "ready"
    /\ req' = parse_scenario(scenario)
    /\ checks' = ChecksOf(rows, req')
    /\ all_passed' = NoFails(checks')
    /\ pcS' = "done"
    /\ UNCHANGED <<rows, scenario>>
    /\ UNCHANGED varsT
    /\ UNCHANGED varsR
    /\ UNCHANGED varsC

NextS == Validate

SpecScenario == InitS /\ [][NextS]_vars

---------------------------------------------------------------------------
(* Several calls on one TestCaseValidator and on one ScenarioValidator *)

\* The most calls of an enumerated run.
MaxCalls == 3

\* CSVs handed to validate_csv: a clean one, one with a page-order ERROR, and
\* a file that cannot be read.
CallDocs ==
    {Document(FullHeader, <<BaseRow>>),
     Document(FullHeader, <<[BaseRow EXCEPT !.Group = "Documents"], BaseRow>>),
     Unreadable}

CallScenarios == {"2 beneficiaries", "no lincu"}

\* The CSVs the ScenarioValidator is built on.
CallCsvs ==
    {Document(FullHeader, CoverRows),
     Document(FullHeader, CoverRows \o
        <<Row("Other Products", "beneficiaryMobileNo", "Input", "555-1234",
              "//input[@id='beneficiaryMobileNo']")>>)}

\* Both constructors ran: each validator holds an empty list of its own.
InitC ==
    /\ csv = Unreadable /\ rules = <<FipRule>>
    /\ results = <<>> /\ is_valid = "none" /\ pc = "ready"
    /\ \E doc \in CallCsvs : rows = read_csv(doc)
    /\ scenario = "" /\ req = ScenarioRequirements
    /\ checks = <<>> /\ all_passed = "none" /\ pcS = "ready"
    /\ heap = <<<<>>, <<>>>>
    /\ self_results = 1
    /\ self_checks = 2
    /\ calls = <<>>
    /\ IdleR

\* A caller calls validate_csv and keeps what it returned.
CallValidateCsv ==
    /\ Len(calls) < MaxCalls
    /\ \E doc \in CallDocs :
          LET out == validate_csv(heap, self_results, doc, rules)
          IN  /\ heap' = out.heap
              /\ self_results' = out.ref
              /\ csv' = doc
              /\ results' = out.heap[out.ref]
              /\ is_valid' = out.verdict
              /\ calls' = Append(calls, [op |-> "validate_csv", input |-> doc,
                                         verdict |-> out.verdict, ref |-> out.ref,
                                         value |-> out.heap[out.ref]])
    /\ pc' = "done"
    /\ UNCHANGED <<rules, self_checks>>
    /\ UNCHANGED varsS
    /\ UNCHANGED varsR

\* A caller calls validate and keeps what it returned.
CallValidate ==
    /\ Len(calls) < MaxCalls
    /\ \E sc \in CallScenarios :
          LET out == validate(heap, self_checks, rows, sc)
          IN  /\ heap' = out.heap
              /\ self_checks' = out.ref
              /\ scenario' = sc
              /\ req' = parse_scenario(sc)
              /\ checks' = out.heap[out.ref]
              /\ all_passed' = out.verdict
              /\ calls' = Append(calls, [op |-> "validate", input |-> sc,
                                         verdict |-> out.verdict, ref |-> out.ref,
                                         value |-> out.heap[out.ref]])
    /\ pcS' = "done"
    /\ UNCHANGED <<rows, self_results>>
    /\ UNCHANGED varsT
    /\ UNCHANGED varsR

NextC == CallValidateCsv \/ CallValidate

SpecCalls == InitC /\ [][NextC]_vars

----------------------------------------------------------------------------

(* Properties of the TestCaseValidator run *)

Range(f) == {f[k] : k \in DOMAIN f}

Done == pc = "done"

\* The row dictionaries of the document under validation.
Rows == read_csv(csv)

\* The number of results with this severity, row and field.
Count(sev, row, field) ==
    Cardinality({k \in 1..Len(results) :
                    /\ results[k].severity = sev
                    /\ results[k].row = row
                    /\ results[k].field = field})

\* C1: validate_csv returns passed = true exactly when the returned list holds
\* no result of severity ERROR; WARNING and INFO results never fail the CSV.
C1_PassedIffNoError ==
    Done => (is_valid = (\A k \in 1..Len(results) : results[k].severity # "ERROR"))

C1_Witness ==
    /\ Done /\ is_valid = TRUE
    /\ \E k \in 1..Len(results) : results[k].severity = "WARNING"

MissingColumns == {c \in Range(REQUIRED_COLUMNS) : c \notin Range(csv.header)}

\* The file-level (row 0) ERRORs: those of the structure check.
FileErrors == {k \in 1..Len(results) : results[k].severity = "ERROR" /\ results[k].row = 0}

OneErrorPerMissingColumn ==
    /\ \A c \in MissingColumns :
          \E k \in FileErrors :
             /\ results[k].field = c
             /\ results[k].message = "Missing required column: " \o c
    /\ Cardinality(FileErrors) = Cardinality(MissingColumns)
    /\ is_valid = FALSE

\* C2 as stated: every readable CSV whose header lacks k >= 1 required columns
\* gets exactly k structure ERRORs, one naming each missing column, and fails,
\* a CSV with a header and no data rows included.
C2_Original ==
    (Done /\ csv.readable /\ MissingColumns # {}) => OneErrorPerMissingColumn

\* C2 amended: the same for a CSV with at least one data row; a CSV with no
\* data row gets the single file-level ERROR "CSV is empty" whatever its
\* header lacks, and fails too.
C2_MissingColumns ==
    (Done /\ csv.readable /\ MissingColumns # {}) =>
        IF Len(csv.lines) >= 1
        THEN OneErrorPerMissingColumn
        ELSE /\ Cardinality(FileErrors) = 1
             /\ \A k \in FileErrors :
                   results[k].field = "file" /\ results[k].message = "CSV is empty"
             /\ is_valid = FALSE

C2_Witness ==
    /\ Done /\ csv.readable /\ Len(csv.lines) >= 1
    /\ Cardinality(MissingColumns) = 2
    /\ Cardinality(FileErrors) = 2

GroupOf(i) == Get(Rows[i], "Group", "")

\* The rows whose page lies strictly before the latest page of the rows above.
Regressions ==
    {i \in 1..Len(Rows) :
        /\ PageIndex(GroupOf(i)) # -1
        /\ \E j \in 1..(i - 1) : PageIndex(GroupOf(j)) > PageIndex(GroupOf(i))}

\* The results of the sequence check: the ERRORs on field Group of a data row.
SequenceErrors ==
    {k \in 1..Len(results) :
        results[k].severity = "ERROR" /\ results[k].field = "Group" /\ results[k].row >= 1}

\* C3: the sequence check reports an ERROR at row i exactly when row i resolves
\* to a page index strictly below the maximum resolved index of the rows before
\* it, once per such row; so a non-decreasing sequence has no sequence ERROR.
C3_SequenceErrors ==
    (Done /\ csv.readable) =>
        /\ {results[k].row : k \in SequenceErrors} = Regressions
        /\ Cardinality(SequenceErrors) = Cardinality(Regressions)

\* One Documents row after an Additional Details row: one ERROR, at row 2.
C3_Witness ==
    /\ Done /\ csv.readable /\ Len(Rows) = 2
    /\ GroupOf(1) = "Additional Details" /\ GroupOf(2) = "Documents"
    /\ Cardinality(SequenceErrors) = 1
    /\ \A k \in SequenceErrors : results[k].row = 2

\* C4: every result of the conditional-rule check is a WARNING, and the verdict
\* on a CSV is the same under every rule set.
C4_RulesNeverBlock ==
    Done =>
        /\ \A rl \in RuleSets :
              LET res == validate_conditionals(Rows, rl)
              IN  \A k \in 1..Len(res) : res[k].severity = "WARNING"
        /\ \A rl \in RuleSets : RunValidateCsv(csv, rl).is_valid = is_valid

C4_Witness ==
    /\ Done /\ is_valid = TRUE
    /\ validate_conditionals(Rows, rules) # <<>>
    /\ validate_conditionals(Rows, <<>>) = <<>>

\* The last row that records a boolean for element e is an Input of true.
LastRecordedTrue(e) ==
    \E i \in 1..Len(Rows) :
        /\ Get(Rows[i], "Element", "") = e
        /\ Get(Rows[i], "Action", "") = "Input"
        /\ Get(Rows[i], "Value", "") \in {"true", "True"}
        /\ \A j \in (i + 1)..Len(Rows) :
              ~ /\ Get(Rows[j], "Element", "") = e
                /\ Get(Rows[j], "Action", "") = "Input"
                /\ Get(Rows[j], "Value", "") \in {"true", "True", "false", "False"}

ElementPresent(f) == \E i \in 1..Len(Rows) : Get(Rows[i], "Element", "") = f

SingleRequiringRule ==
    /\ Len(rules) = 1
    /\ rules[1].trigger_value = TRUE
    /\ Len(rules[1].required_fields) = 1

\* C5: under a single rule with trigger_value true and required_fields [f], when
\* the trigger's last recorded boolean Input is true, the conditional check
\* emits exactly one WARNING on f if no row has Element f and none otherwise.
C5_RequiredField ==
    (Done /\ csv.readable /\ SingleRequiringRule /\ LastRecordedTrue(rules[1].trigger_field)) =>
        LET f == rules[1].required_fields[1]
        IN  /\ Count("WARNING", 0, f) = (IF ElementPresent(f) THEN 0 ELSE 1)
            /\ Count("ERROR", 0, f) = 0

\* The trigger is set to False and then to true, and the required field is absent.
C5_Witness ==
    /\ Done /\ csv.readable /\ SingleRequiringRule
    /\ LastRecordedTrue(rules[1].trigger_field)
    /\ \E i \in 1..Len(Rows) :
          /\ Get(Rows[i], "Element", "") = rules[1].trigger_field
          /\ Get(Rows[i], "Value", "") = "False"
    /\ ~ElementPresent(rules[1].required_fields[1])
    /\ Count("WARNING", 0, rules[1].required_fields[1]) = 1

EmptyInputRows ==
    {i \in 1..Len(Rows) : Get(Rows[i], "Action", "") = "Input" /\ Get(Rows[i], "Value", "") = ""}

\* C6: each row with Action Input and an empty Value gets exactly one WARNING
\* on field Value, and a CSV whose only findings are such WARNINGs is valid.
C6_EmptyInputValue ==
    (Done /\ csv.readable) =>
        /\ \A i \in EmptyInputRows : Count("WARNING", i, "Value") = 1
        /\ (\A k \in 1..Len(results) :
                /\ results[k].severity = "WARNING" /\ results[k].field = "Value"
                /\ results[k].row \in EmptyInputRows)
           => is_valid = TRUE

C6_Witness ==
    /\ Done /\ csv.readable /\ is_valid = TRUE
    /\ Cardinality(EmptyInputRows) = 2
    /\ Len(results) = 2
    /\ \A k \in 1..Len(results) : results[k].severity = "WARNING" /\ results[k].field = "Value"

---------------------------------------------------------------------------
(* Properties of the ScenarioValidator run *)

DoneS == pcS = "done"

\* C7: validate returns passed = true exactly when no emitted check has result
\* FAIL; WARN and INFO checks never fail the scenario.
C7_PassedIffNoFail ==
    DoneS => (all_passed = (\A k \in 1..Len(checks) : checks[k].result # "FAIL"))

C7_Witness ==
    /\ DoneS /\ all_passed = TRUE
    /\ \E k \in 1..Len(checks) : checks[k].result = "WARN"
    /\ \E k \in 1..Len(checks) : checks[k].result = "INFO"

BoolElements == {"isHeadOfState", "hasBeneficiary", "beneficiaryMobileNo"}

\* The first row with Element e and Action Input, 0 when there is none.
FirstInputOf(e) ==
    LET hits == {i \in 1..Len(rows) :
                    Get(rows[i], "Element", "") = e /\ Get(rows[i], "Action", "") = "Input"}
    IN  IF hits = {} THEN 0 ELSE CHOOSE i \in hits : \A k \in hits : i <= k

\* The click-derived value of e: label[1] is true, label[2] is false, by the
\* first click row of e that names one of the two.
ClickInference(e) ==
    LET hits == {i \in 1..Len(rows) :
                    /\ Get(rows[i], "Element", "") = e /\ Get(rows[i], "Action", "") = "click"
                    /\ \/ IsSubstr("label[1]", Get(rows[i], "XPath", ""))
                       \/ IsSubstr("label[2]", Get(rows[i], "XPath", ""))}
    IN  IF hits = {} THEN None
        ELSE LET i == CHOOSE i \in hits : \A k \in hits : i <= k
             IN  IF IsSubstr("label[1]", Get(rows[i], "XPath", "")) THEN Some(TRUE) ELSE Some(FALSE)

\* C8 as stated: boolean_value(e) is decided by the first Input row of e whenever
\* there is one, and the click inference is used only when there is none.
C8_Original ==
    DoneS =>
        \A e \in BoolElements :
            IF FirstInputOf(e) # 0
            THEN get_boolean_value(rows, e)
                    = Some(Lower(Get(rows[FirstInputOf(e)], "Value", "")) = "true")
            ELSE get_boolean_value(rows, e) = ClickInference(e)

\* C8 amended: boolean_value(e) is decided by the first Input row of e whenever
\* there is one and it has a Value cell; when there is no Input row of e, or the
\* first one has no Value cell (the CSV has no Value column), the click
\* inference is used.
C8_InputBeforeClick ==
    DoneS =>
        \A e \in BoolElements :
            IF FirstInputOf(e) # 0 /\ "Value" \in DOMAIN rows[FirstInputOf(e)]
            THEN get_boolean_value(rows, e)
                    = Some(Lower(rows[FirstInputOf(e)]["Value"]) = "true")
            ELSE get_boolean_value(rows, e) = ClickInference(e)

\* A label[2] click of isHeadOfState followed by an Input of True: true.
C8_Witness ==
    /\ DoneS
    /\ \E i \in 1..Len(rows) :
          /\ Get(rows[i], "Element", "") = "isHeadOfState"
          /\ Get(rows[i], "Action", "") = "click"
          /\ IsSubstr("label[2]", Get(rows[i], "XPath", ""))
          /\ i < FirstInputOf("isHeadOfState")
          /\ Get(rows[FirstInputOf("isHeadOfState")], "Value", "") = "True"
    /\ get_boolean_value(rows, "isHeadOfState") = Some(TRUE)

\* The keyword tables in the priority order the specification lists.
EmploymentOrder ==
    << <<"full-time permanent", "FULL TIME PERMANENT">>,
       <<"full-time temporary", "FULL TIME TEMPORARY">>,
       <<"part-time", "PART TIME">>,
       <<"self-employed", "SELF EMPLOYED">>,
       <<"unemployed", "UNEMPLOYED">>,
       <<"retired pensioned", "RETIRED PENSIONED">>,
       <<"retired non-pensioned", "RETIRED NON PENSIONED">> >>

MaritalOrder ==
    << <<"single", "SINGLE">>, <<"married", "MARRIED">>, <<"divorced", "DIVORCED">>,
       <<"widowed", "WIDOWED">>, <<"common law", "COMMON LAW">> >>

\* The label of the first entry of the table whose keyword occurs in text.
FirstInOrder(table, text) ==
    LET hits == {k \in 1..Len(table) : IsSubstr(table[k][1], text)}
    IN  IF hits = {} THEN None
        ELSE Some(table[CHOOSE k \in hits : \A m \in hits : k <= m][2])

\* C9: employment_status and marital_status are the label of the first keyword,
\* in table order, that occurs in the lowercased text, wherever it occurs, and
\* unset when none occurs; the example text parses to SINGLE, male, FULL TIME
\* PERMANENT, no beneficiary with count 0, a joint partner with count 2.
C9_FirstKeywordInTableOrder ==
    DoneS =>
        /\ req.employment_status = FirstInOrder(EmploymentOrder, Lower(scenario))
        /\ req.marital_status = FirstInOrder(MaritalOrder, Lower(scenario))
        /\ scenario = "Single male, full-time permanent, no beneficiaries, 2 joint partners" =>
              /\ req.marital_status = <<"SINGLE">>
              /\ req.gender = <<"male">>
              /\ req.employment_status = <<"FULL TIME PERMANENT">>
              /\ req.has_beneficiary = <<FALSE>> /\ req.beneficiary_count = <<0>>
              /\ req.has_joint_partner = <<TRUE>> /\ req.joint_partner_count = <<2>>

\* A later table entry stands first in the text, and the earlier entry wins.
C9_Witness ==
    /\ DoneS
    /\ scenario = "Part-Time, full-time permanent"
    /\ req.employment_status = <<"FULL TIME PERMANENT">>

CheckOrder ==
    <<"Row Count", "Page Coverage", "Employment Status", "Marital Status", "Has Beneficiary",
      "Beneficiary Count", "Has Joint Partner", "LinCU Card Application", "FIP Application",
      "All PEP Questions = No", "All FATCA Questions = No", "OTP Verifications">>

CheckNames == [k \in 1..Len(checks) |-> checks[k].name]

\* The requirement field of a check is set.
RequirementSet(name) ==
    CASE name = "Employment Status" -> req.employment_status # <<>>
      [] name = "Marital Status" -> req.marital_status # <<>>
      [] name = "Has Beneficiary" -> req.has_beneficiary # <<>>
      [] name = "Beneficiary Count" -> req.beneficiary_count # <<>>
      [] name = "Has Joint Partner" -> req.has_joint_partner # <<>>
      [] name = "LinCU Card Application" -> req.lincu_card # <<>>
      [] name = "FIP Application" -> req.fip_application # <<>>
      [] name = "All PEP Questions = No" -> req.all_pep_no # <<>>
      [] name = "All FATCA Questions = No" -> req.all_fatca_no # <<>>
      [] OTHER -> TRUE

\* C10 as stated: the check names are the subsequence of the fixed order with
\* Row Count, Page Coverage and OTP Verifications always there and every other
\* check there exactly when its requirement field is set.
C10_Original ==
    DoneS => CheckNames = SelectSeq(CheckOrder, RequirementSet)

EmittedFor(name) ==
    IF name = "Beneficiary Count"
    THEN req.beneficiary_count # <<>> /\ req.beneficiary_count[1] > 0
    ELSE RequirementSet(name)

\* C10 amended: the same, except that Beneficiary Count is there exactly when
\* beneficiary_count is set and greater than 0 (a count of 0, as "no
\* beneficiaries" sets it, emits no count check).
C10_ChecksInOrder ==
    DoneS => CheckNames = SelectSeq(CheckOrder, EmittedFor)

\* "no beneficiaries": has_beneficiary and a count of 0 are set, the rest is not.
C10_Witness ==
    /\ DoneS
    /\ req.beneficiary_count = <<0>> /\ req.lincu_card = <<>>
    /\ CheckNames = <<"Row Count", "Page Coverage", "Has Beneficiary", "OTP Verifications">>


\* Every one of the six expected pages is matched by the Group of some row.
CoversAllPages ==
    LET groups == {Lower(Get(rows[i], "Group", "")) : i \in 1..Len(rows)}
    IN  \A ep \in {"contact info", "documents", "additional details", "other products",
                   "pep / fatca", "pdf / other details"} :
            \E g \in groups : IsSubstr(ep, g) \/ IsSubstr(g, ep)

\* The end-to-end case: all pages, the dropdown on FULL TIME PERMANENT, two OTP
\* entries, and a scenario that asks for employment status FULL TIME PERMANENT only.
EndToEndCase ==
    /\ req = [ScenarioRequirements EXCEPT !.employment_status = <<"FULL TIME PERMANENT">>]
    /\ get_selected_dropdown_value(rows, "Employment Status") = <<"FULL TIME PERMANENT">>
    /\ count_element_occurrences(rows, "otp-input-0") = 2
    /\ CoversAllPages

\* C11: a CSV that covers the six pages, selects FULL TIME PERMANENT in the
\* Employment Status dropdown and has two otp-input-0 rows, validated against a
\* scenario that only asks for FULL TIME PERMANENT, has no FAIL check and passes.
C11_EndToEndPass ==
    (DoneS /\ EndToEndCase) =>
        /\ all_passed = TRUE
        /\ \A k \in 1..Len(checks) : checks[k].result # "FAIL"

C11_Witness ==
    /\ DoneS /\ EndToEndCase
    /\ CheckNames = <<"Row Count", "Page Coverage", "Employment Status", "OTP Verifications">>
    /\ \A k \in 2..4 : checks[k].result = "PASS"


---------------------------------------------------------------------------
(* Further properties of the TestCaseValidator run *)

\* The results that report a failure to read the CSV.
ReadFailureReports ==
    {k \in 1..Len(results) : StartsWith(results[k].message, "Failed to read CSV")}

\* C12 as stated: a CSV that cannot be read aborts the run and validate_csv never
\* returns a result that reports the read failure.
C12_Original ==
    Done => ReadFailureReports = {}

\* C12 amended: a CSV path that names no file aborts the run in main before
\* validate_csv is called and nothing is recorded; a CSV that is there and cannot
\* be read is recorded: validate_csv returns passed = false and exactly one
\* result, the ERROR at row 0, field file, "Failed to read CSV: <error>"; a CSV
\* that is read gets no such result.
C12_ReadFailureRecorded ==
    /\ pc = "aborted" => (~csv.exists /\ results = <<>> /\ is_valid = "none")
    /\ Done => csv.exists
    /\ (Done /\ ~csv.readable) =>
          /\ is_valid = FALSE
          /\ results = <<[severity |-> "ERROR", row |-> 0, field |-> "file",
                          message |-> "Failed to read CSV: " \o csv.error]>>
    /\ (Done /\ csv.readable) => ReadFailureReports = {}

C12_Witness ==
    /\ Done /\ csv.exists /\ ~csv.readable
    /\ Len(results) = 1 /\ ReadFailureReports = {1}


\* The rows the content check flagged with an unknown-Group WARNING.
UnknownGroupWarnings ==
    {results[k].row : k \in {m \in 1..Len(results) :
                                /\ results[m].severity = "WARNING"
                                /\ results[m].field = "Group"
                                /\ StartsWith(results[m].message, "Unknown group/page")}}

\* Group and page match when either is a substring of the other.
MatchesEitherWay(group, page) == IsSubstr(group, page) \/ IsSubstr(page, group)

\* C13: the content check flags a row with an unknown-Group WARNING exactly when
\* its Group is not empty and matches no canonical page name in either direction;
\* a Group that holds a canonical page name gets no WARNING.
C13_UnknownGroupBidirectional ==
    (Done /\ csv.readable) =>
        \A i \in 1..Len(Rows) :
            (i \in UnknownGroupWarnings) <=>
                /\ GroupOf(i) # ""
                /\ \A j \in 1..Len(PAGE_ORDER) : ~MatchesEitherWay(GroupOf(i), PAGE_ORDER[j])


\* The rows that record a boolean for element e: Input rows of e whose Value is
\* one of the four literals.
RecordingRows(e) ==
    {i \in 1..Len(Rows) :
        /\ Get(Rows[i], "Element", "") = e
        /\ Get(Rows[i], "Action", "") = "Input"
        /\ Get(Rows[i], "Value", "") \in {"true", "false", "True", "False"}}

\* The state the last recording row of e leaves, unset when there is none.
RecordedState(e) ==
    IF RecordingRows(e) = {} THEN <<>>
    ELSE LET last == CHOOSE i \in RecordingRows(e) : \A k \in RecordingRows(e) : k <= i
         IN  <<Get(Rows[last], "Value", "") \in {"true", "True"}>>

\* A rule that requires f when the trigger is true, with a rule that excludes f
\* when the trigger is not false: f absent or present, one WARNING names f
\* exactly when the trigger's state is true.
MirrorRules ==
    /\ Len(rules) = 2
    /\ rules[1].trigger_field = rules[2].trigger_field
    /\ rules[1].trigger_value = TRUE /\ rules[2].trigger_value = FALSE
    /\ rules[1].required_fields = rules[2].excluded_fields
    /\ Len(rules[1].required_fields) = 1
    /\ rules[1].excluded_fields = <<>>

\* C15: the recorded state of an Element is that of the last row with that
\* Element, Action Input and Value one of true, false, True, False; rows with
\* another Value or with Action click neither record nor clear a state.
C15_LastLiteralInputWins ==
    (Done /\ csv.readable) =>
        LET states == BooleanStates(Rows, Len(Rows))
        IN  /\ \A e \in PresentElements(Rows) :
                  /\ (e \in DOMAIN states) <=> (RecordedState(e) # <<>>)
                  /\ (e \in DOMAIN states) => (<<states[e]>> = RecordedState(e))
            /\ DOMAIN states \subseteq PresentElements(Rows)
            /\ MirrorRules =>
                  (Count("WARNING", 0, rules[1].required_fields[1])
                     = (IF RecordedState(rules[1].trigger_field) = <<TRUE>> THEN 1 ELSE 0))

\* The trigger is set to False, then to true, then given the unrecognised TRUE.
C15_Witness ==
    /\ Done /\ csv.readable /\ MirrorRules
    /\ Len(Rows) = 3
    /\ \A i \in 1..3 : /\ Get(Rows[i], "Element", "") = rules[1].trigger_field
                       /\ Get(Rows[i], "Action", "") = "Input"
    /\ Get(Rows[1], "Value", "") = "False"
    /\ Get(Rows[2], "Value", "") = "true"
    /\ Get(Rows[3], "Value", "") = "TRUE"
    /\ RecordedState(rules[1].trigger_field) = <<TRUE>>
    /\ Count("WARNING", 0, rules[1].required_fields[1]) = 1

\* The fields of the WARNINGs at row 0 whose message holds this phrase, in order.
FindingFields(phrase) ==
    LET hits == SelectSeq(results, LAMBDA r : /\ r.severity = "WARNING" /\ r.row = 0
                                               /\ IsSubstr(phrase, r.message))
    IN  [k \in 1..Len(hits) |-> hits[k].field]

\* The excluded fields rule k warns of: those present in some row, when the
\* trigger has a recorded state that differs from trigger_value.
ExpectedExcluded(k) ==
    LET state == RecordedState(rules[k].trigger_field)
    IN  IF state # <<>> /\ state[1] # rules[k].trigger_value
        THEN SelectSeq(rules[k].excluded_fields, ElementPresent)
        ELSE <<>>

\* Rule k's trigger has a recorded state, and it equals trigger_value.
TriggerMet(k) == RecordedState(rules[k].trigger_field) = <<rules[k].trigger_value>>

\* C16: a rule whose trigger has no recorded state emits nothing; one whose
\* recorded state differs from trigger_value emits one WARNING per excluded field
\* that is some row's Element (any position, any action) and no required-field
\* WARNING; one whose state equals trigger_value emits no excluded-field WARNING.
C16_ExcludedFields ==
    (Done /\ csv.readable) =>
        /\ FindingFields("may not be needed when")
             = Flatten([k \in 1..Len(rules) |-> ExpectedExcluded(k)])
        /\ \A f \in Range(FindingFields("may be required when")) :
              \E k \in 1..Len(rules) : TriggerMet(k) /\ f \in Range(rules[k].required_fields)
        /\ (\A k \in 1..Len(rules) : RecordedState(rules[k].trigger_field) = <<>>) =>
              \A m \in 1..Len(results) : ~(results[m].severity = "WARNING" /\ results[m].row = 0)

\* One excluded field is clicked before the trigger row, the other is entered
\* after it, and the trigger is False under a rule that asks for true.
C16_Witness ==
    /\ Done /\ csv.readable
    /\ Len(rules) = 1 /\ rules[1].trigger_value = TRUE
    /\ rules[1].excluded_fields = <<"fipPlanSelection", "lincuCardType">>
    /\ Len(Rows) = 3
    /\ Get(Rows[1], "Element", "") = "fipPlanSelection" /\ Get(Rows[1], "Action", "") = "click"
    /\ Get(Rows[2], "Element", "") = rules[1].trigger_field /\ Get(Rows[2], "Value", "") = "False"
    /\ Get(Rows[3], "Element", "") = "lincuCardType"
    /\ FindingFields("may not be needed when") = <<"fipPlanSelection", "lincuCardType">>
    /\ FindingFields("may be required when") = <<>>

---------------------------------------------------------------------------
(* Further properties of the ScenarioValidator run *)

DropdownTriggers == {"Employment Status", "Marital Status"}

\* The click rows whose Element contains t, ignoring case.
TriggerRows(t) ==
    {i \in 1..Len(rows) :
        /\ Get(rows[i], "Action", "") = "click"
        /\ IsSubstr(Lower(t), Lower(Get(rows[i], "Element", "")))}

\* The click rows whose XPath contains "option", ignoring case.
OptionRows ==
    {i \in 1..Len(rows) :
        /\ Get(rows[i], "Action", "") = "click"
        /\ IsSubstr("option", Lower(Get(rows[i], "XPath", "")))}

\* The Element of the first row of S that stands after the first trigger row of
\* t; unset when there is no trigger row or no such row.
FirstAfterTrigger(t, S) ==
    LET triggers == TriggerRows(t)
    IN  IF triggers = {} THEN <<>>
        ELSE LET first == CHOOSE i \in triggers : \A k \in triggers : i <= k
                 later == {i \in S : i > first}
             IN  IF later = {} THEN <<>>
                 ELSE <<Get(rows[CHOOSE i \in later : \A k \in later : i <= k], "Element", "")>>

\* C14 as stated: selected_dropdown_value(t) is the Element of the first click
\* row with "option" in its XPath after the first trigger row of t, also when
\* that option row's own Element contains t; unset when there is none.
C14_Original ==
    DoneS =>
        \A t \in DropdownTriggers :
            get_selected_dropdown_value(rows, t) = FirstAfterTrigger(t, OptionRows)

\* C14 amended: selected_dropdown_value(t) is the Element of the first click row
\* after the first trigger row of t that has "option" in its XPath and whose own
\* Element does not contain t (a row whose Element contains t counts as a
\* trigger, never as the selection); unset when there is no trigger row or no
\* such later row.
C14_FirstOptionAfterTrigger ==
    DoneS =>
        \A t \in DropdownTriggers :
            get_selected_dropdown_value(rows, t)
                = FirstAfterTrigger(t, OptionRows \ TriggerRows(t))

\* A row that is a trigger and has "option" in its XPath lies between the first
\* trigger and the selection.
C14_Witness ==
    /\ DoneS
    /\ \E i, j, k \in 1..Len(rows) :
          /\ i < j /\ j < k
          /\ i \in TriggerRows("Employment Status")
          /\ j \in TriggerRows("Employment Status") \cap OptionRows
          /\ k \in OptionRows \ TriggerRows("Employment Status")
    /\ get_selected_dropdown_value(rows, "Employment Status") = <<"FULL TIME PERMANENT">>


\* The positions of the checks with this name.
ChecksNamed(name) == {k \in 1..Len(checks) : checks[k].name = name}

\* Some row has this Element, whatever its action.
HasElementRow(e) == \E i \in 1..Len(rows) : Get(rows[i], "Element", "") = e

\* The boolean field if it resolves, else the presence of the fallback element.
SectionActual(flag, fallback) ==
    IF get_boolean_value(rows, flag) # <<>>
    THEN get_boolean_value(rows, flag)[1]
    ELSE HasElementRow(fallback)

\* The rows whose Element contains e, ignoring case.
RowsContaining(e) ==
    {i \in 1..Len(rows) : IsSubstr(Lower(e), Lower(Get(rows[i], "Element", "")))}

\* C17: when has_beneficiary is set, the Has Beneficiary check compares it with
\* boolean_value('hasBeneficiary') if that is set and with
\* has_element('beneficiaryMobileNo') otherwise, PASS on equality and FAIL
\* otherwise; a Beneficiary Count check is there only for a count > 0, and it is
\* PASS when the beneficiaryMobileNo rows number the count and WARN otherwise.
C17_HasBeneficiary ==
    DoneS =>
        /\ req.has_beneficiary # <<>> =>
              /\ Cardinality(ChecksNamed("Has Beneficiary")) = 1
              /\ \A k \in ChecksNamed("Has Beneficiary") :
                    checks[k].result =
                        (IF SectionActual("hasBeneficiary", "beneficiaryMobileNo")
                              = req.has_beneficiary[1]
                         THEN "PASS" ELSE "FAIL")
        /\ \A k \in ChecksNamed("Beneficiary Count") :
              /\ req.beneficiary_count # <<>> /\ req.beneficiary_count[1] > 0
              /\ checks[k].result =
                    (IF Cardinality(RowsContaining("beneficiaryMobileNo")) = req.beneficiary_count[1]
                     THEN "PASS" ELSE "WARN")

\* hasBeneficiary does not resolve, two beneficiaryMobileNo rows stand for it,
\* and one beneficiary was asked for: PASS by the fallback, WARN on the count.
C17_Witness ==
    /\ DoneS
    /\ req.has_beneficiary = <<TRUE>> /\ req.beneficiary_count = <<1>>
    /\ get_boolean_value(rows, "hasBeneficiary") = <<>>
    /\ Cardinality(RowsContaining("beneficiaryMobileNo")) = 2
    /\ \E k \in ChecksNamed("Has Beneficiary") : checks[k].result = "PASS"
    /\ \E k \in ChecksNamed("Beneficiary Count") : checks[k].result = "WARN"
    /\ all_passed = TRUE


\* C18: the joint-partner step is the beneficiary step with hasJointPartner and
\* customerId: a PASS/FAIL Has Joint Partner check by boolean_value('hasJointPartner')
\* with fallback has_element('customerId'), and, for a joint-partner count > 0, a
\* count check that is PASS when the customerId rows number the count and WARN
\* otherwise.
C18_JointPartnerAnalogous ==
    (DoneS /\ req.has_joint_partner # <<>>) =>
        /\ Cardinality(ChecksNamed("Has Joint Partner")) = 1
        /\ \A k \in ChecksNamed("Has Joint Partner") :
              checks[k].result =
                  (IF SectionActual("hasJointPartner", "customerId") = req.has_joint_partner[1]
                   THEN "PASS" ELSE "FAIL")
        /\ (req.joint_partner_count # <<>> /\ req.joint_partner_count[1] > 0) =>
              \E k \in 1..Len(checks) :
                  /\ checks[k].name \notin Range(CheckOrder)
                  /\ checks[k].result =
                        (IF Cardinality(RowsContaining("customerId")) = req.joint_partner_count[1]
                         THEN "PASS" ELSE "WARN")


\* Some field of the set resolves to true.
SomeTrue(fields) == \E f \in fields : get_boolean_value(rows, f) = <<TRUE>>

\* The check of this name is there once, FAIL when some field resolves to true
\* and PASS otherwise.
AllNoResult(name, fields) ==
    /\ Cardinality(ChecksNamed(name)) = 1
    /\ \A k \in ChecksNamed(name) :
          checks[k].result = (IF SomeTrue(fields) THEN "FAIL" ELSE "PASS")

\* C19: when all_pep_no is requested the All-PEP-no check is FAIL exactly when
\* boolean_value of one of the 11 PEP fields is true; unset and false fields do
\* not fail it, so a CSV with none of the fields gets PASS.  The All-FATCA-no
\* check is the same over its 5 fields.
C19_AllNo ==
    DoneS =>
        /\ req.all_pep_no = <<TRUE>> =>
              AllNoResult("All PEP Questions = No",
                          {"isHeadOfState", "isHeadOfGovt", "isSenPolitician", "isSenGovtOfficial",
                           "isSenJudicialOfficial", "isSenMilitaryOfficial", "isSenExecSOC",
                           "isImpPPO", "isImmediateFamily", "isMemberOfSeniorManagement",
                           "isPepAssociate"})
        /\ req.all_fatca_no = <<TRUE>> =>
              AllNoResult("All FATCA Questions = No",
                          {"isCitizenOfOtherCountry", "isGreenCardHolder", "isGranteePOA",
                           "hasStandingInstructIncome", "isDisclosureTaxResidency"})

\* No FATCA field is in the CSV and a PEP field is entered as false: both PASS.
C19_Witness ==
    /\ DoneS /\ req.all_pep_no = <<TRUE>> /\ req.all_fatca_no = <<TRUE>>
    /\ HasElementRow("isPepAssociate") /\ get_boolean_value(rows, "isPepAssociate") = <<FALSE>>
    /\ ~HasElementRow("isGreenCardHolder") /\ ~HasElementRow("isDisclosureTaxResidency")
    /\ \A k \in ChecksNamed("All PEP Questions = No") \cup ChecksNamed("All FATCA Questions = No") :
          checks[k].result = "PASS"
    /\ all_passed = TRUE


\* C20: the Page Coverage check is PASS exactly when each of the six expected
\* pages is matched by some row's Group, ignoring case, one containing the other
\* in either direction; it is FAIL otherwise, and so for a CSV with no rows.
C20_PageCoverage ==
    DoneS =>
        /\ Cardinality(ChecksNamed("Page Coverage")) = 1
        /\ \A k \in ChecksNamed("Page Coverage") :
              /\ checks[k].result = (IF CoversAllPages THEN "PASS" ELSE "FAIL")
              /\ Len(rows) = 0 => checks[k].result = "FAIL"

\* A single row whose Group, one letter, lies inside every expected page name.
C20_Witness ==
    /\ DoneS
    /\ Len(rows) = 1 /\ Get(rows[1], "Group", "") = "t"
    /\ \E k \in ChecksNamed("Page Coverage") : checks[k].result = "PASS"


\* C21: every validate call ends its list with the one OTP Verifications check,
\* PASS when at least two rows have an Element matching otp-input-0 and WARN
\* otherwise, never FAIL; the verdict is that of the checks before it.
C21_OtpCheckLast ==
    DoneS =>
        /\ ChecksNamed("OTP Verifications") = {Len(checks)}
        /\ checks[Len(checks)].result =
              (IF Cardinality(RowsContaining("otp-input-0")) >= 2 THEN "PASS" ELSE "WARN")
        /\ all_passed = (\A k \in 1..(Len(checks) - 1) : checks[k].result # "FAIL")

\* A single OTP entry on a CSV that covers every page: WARN, and the run passes.
C21_Witness ==
    /\ DoneS
    /\ Cardinality(RowsContaining("otp-input-0")) = 1
    /\ checks[Len(checks)].name = "OTP Verifications"
    /\ checks[Len(checks)].result = "WARN"
    /\ all_passed = TRUE


---------------------------------------------------------------------------
(* Properties of the registry build *)

Built == pcR = "built"

\* The suffix of the identifier each XPath key of a field is registered under,
\* in the order the keys are registered.
FieldKeys == <<"xpath", "xpath_true", "xpath_false", "xpath_trigger">>
KeySuffix == [xpath |-> "", xpath_true |-> "_true", xpath_false |-> "_false",
              xpath_trigger |-> "_trigger"]

\* The <<XPath, identifier>> pairs a field with an id registers for its own keys.
OwnEntries(field) ==
    IF "id" \in DOMAIN field /\ field.id # ""
    THEN LET keys == SelectSeq(FieldKeys, LAMBDA k : k \in DOMAIN field)
         IN  [n \in 1..Len(keys) |-> <<field[keys[n]], field.id \o KeySuffix[keys[n]]>>]
    ELSE <<>>

\* The <<XPath, value>> pairs of the options of a field that have an xpath.
OptionEntries(field) ==
    IF "options" \in DOMAIN field
    THEN LET opts == SelectSeq(field.options, LAMBDA o : "xpath" \in DOMAIN o)
         IN  [n \in 1..Len(opts) |->
                 <<opts[n].xpath, IF "value" \in DOMAIN opts[n] THEN opts[n].value ELSE "">>]
    ELSE <<>>

\* Every entry of the schema in one left-to-right pass.
PassEntries ==
    LET fields == SchemaFields(schema)
    IN  Flatten([k \in 1..Len(fields) |-> OwnEntries(fields[k]) \o OptionEntries(fields[k])])

\* C22: after the build every XPath maps to the identifier written last in one
\* left-to-right pass over pages, sections and fields (in a field: xpath,
\* xpath_true, xpath_false, xpath_trigger, then the options, each under its
\* value); a shared XPath keeps the later entry, and no result is produced.
C22_LastWriteWins ==
    Built =>
        LET entries == PassEntries
        IN  /\ DOMAIN xpath_registry = {entries[n][1] : n \in 1..Len(entries)}
            /\ \A n \in 1..Len(entries) :
                  (\A m \in (n + 1)..Len(entries) : entries[m][1] # entries[n][1])
                      => xpath_registry[entries[n][1]] = entries[n][2]
            /\ results = <<>>

\* Two fields share /a and /t, and an option of the later one has the last word
\* on /a.
C22_Witness ==
    /\ Built
    /\ Cardinality({n \in 1..Len(PassEntries) : PassEntries[n][1] = "/a"}) = 3
    /\ xpath_registry["/a"] = "Plan B"
    /\ xpath_registry["/t"] = "plan_trigger"
    /\ xpath_registry["/b"] = "isFip_false"


\* The check of this name is there once, PASS when boolean_value of the field is
\* set and equals the requirement and FAIL otherwise.
FlagResult(name, field, required) ==
    /\ Cardinality(ChecksNamed(name)) = 1
    /\ \A k \in ChecksNamed(name) :
          checks[k].result =
              (IF get_boolean_value(rows, field) = <<required>> THEN "PASS" ELSE "FAIL")

\* C23: when lincu_card (fip_application) is set, the LinCU (FIP) check is PASS
\* exactly when boolean_value of isApplyingForLincuCardApplication
\* (isApplyingForFipApplication) is set and equals it; nothing stands in for a
\* field the CSV does not have, so the check is then FAIL for either value.
C23_FlagChecks ==
    DoneS =>
        /\ req.lincu_card # <<>> =>
              /\ FlagResult("LinCU Card Application", "isApplyingForLincuCardApplication",
                            req.lincu_card[1])
              /\ ~HasElementRow("isApplyingForLincuCardApplication") =>
                    \A k \in ChecksNamed("LinCU Card Application") : checks[k].result = "FAIL"
        /\ req.fip_application # <<>> =>
              /\ FlagResult("FIP Application", "isApplyingForFipApplication",
                            req.fip_application[1])
              /\ ~HasElementRow("isApplyingForFipApplication") =>
                    \A k \in ChecksNamed("FIP Application") : checks[k].result = "FAIL"

\* "no lincu" on a CSV without the LinCU field fails; "fip" on the same CSV,
\* which answers the FIP question with false, fails as well, and the run fails.
C23_Witness ==
    /\ DoneS
    /\ req.lincu_card = <<FALSE>> /\ ~HasElementRow("isApplyingForLincuCardApplication")
    /\ \E k \in ChecksNamed("LinCU Card Application") : checks[k].result = "FAIL"
    /\ req.fip_application = <<TRUE>>
    /\ get_boolean_value(rows, "isApplyingForFipApplication") = <<FALSE>>
    /\ \E k \in ChecksNamed("FIP Application") : checks[k].result = "FAIL"
    /\ all_passed = FALSE


\* The data rows whose Group is empty.
EmptyGroupRows == {i \in 1..Len(Rows) : GroupOf(i) = ""}

\* C24: a row whose Group is empty is skipped by the sequence check: it never
\* gets a page-order ERROR, whatever rows stand before it.
C24_EmptyGroupSkipped ==
    (Done /\ csv.readable) =>
        \A i \in EmptyGroupRows : Count("ERROR", i, "Group") = 0


----------------------------------------------------------------------------
(* Properties of several calls on one validator *)

\* What call k returns when nothing but its input matters.
FreshOutcome(k) ==
    IF calls[k].op = "validate_csv"
    THEN LET out == RunValidateCsv(calls[k].input, rules)
         IN  [verdict |-> out.is_valid, value |-> out.results]
    ELSE LET cs == ChecksOf(rows, parse_scenario(calls[k].input))
         IN  [verdict |-> NoFails(cs), value |-> cs]

\* C25: after any sequence of validate_csv calls on one TestCaseValidator and of
\* validate calls on one ScenarioValidator, every call returned what its input
\* alone determines (no finding of an earlier call in it), every list a call
\* returned still holds what it held at the return, and two calls with the same
\* input have equal verdicts and equal lists.
C25_CallsIndependent ==
    \A k \in 1..Len(calls) :
        /\ calls[k].verdict = FreshOutcome(k).verdict
        /\ calls[k].value = FreshOutcome(k).value
        /\ heap[calls[k].ref] = calls[k].value
        /\ \A j \in 1..(k - 1) :
              (calls[j].op = calls[k].op /\ calls[j].input = calls[k].input) =>
                  /\ calls[j].verdict = calls[k].verdict
                  /\ heap[calls[j].ref] = heap[calls[k].ref]

\* validate_csv on a CSV with findings, then on a CSV without, then on the
\* first again: three list objects, the first still holding its findings.
C25_Witness ==
    /\ Len(calls) = 3
    /\ \A k \in 1..3 : calls[k].op = "validate_csv"
    /\ calls[1].input = calls[3].input /\ calls[1].input # calls[2].input
    /\ HasErrors(calls[1].value) /\ calls[2].value = <<>>
    /\ calls[2].verdict = TRUE /\ calls[3].verdict = FALSE
    /\ heap[calls[1].ref] = calls[1].value
    /\ Cardinality({calls[k].ref : k \in 1..3}) = 3


----------------------------------------------------------------------------
(* Properties of the parsed requirements *)

\* has_X and X_count are both unset, or both set with has_X true exactly for a
\* count above zero.
CountConsistent(has, count) ==
    /\ (has = <<>>) <=> (count = <<>>)
    /\ has # <<>> => (has[1] <=> count[1] > 0)

\* C26: the parsed beneficiary fields are consistent, and so are the joint
\* partner fields: both unset or both set, and has_X true exactly when the
\* count is above zero; 'no beneficiar' in the text wins over a digit count.
C26_CountsConsistent ==
    DoneS =>
        /\ CountConsistent(req.has_beneficiary, req.beneficiary_count)
        /\ CountConsistent(req.has_joint_partner, req.joint_partner_count)
        /\ IsSubstr("no beneficiar", ScenarioLower(scenario)) =>
              req.has_beneficiary = <<FALSE>> /\ req.beneficiary_count = <<0>>

=============================================================================
